---- MODULE Spec2Model ----
(***************************************************************************)
(* A model of fllume's Agent (src/src/fllume/agent.py): the tool-calling   *)
(* conversation loop in its non-streaming and streaming variants.          *)
(*                                                                         *)
(* Two calls are made on one Agent with the same input and against the     *)
(* same provider script: "sync" (stream=False) and "stream" (stream=True). *)
(* The provider (any_llm.completion) is the environment: a script of       *)
(* rounds, each round a sequence of streamed chunks; the non-streaming     *)
(* delivery of a round is the one message those chunks stand for.          *)
(*                                                                         *)
(* Text is modelled by TLA+ strings (\o is Python's +).  Python's None is  *)
(* the reserved string None, so that every field keeps one type.           *)
(***************************************************************************)
EXTENDS Naturals, Sequences, FiniteSets, TLC

VARIABLES
    builder,        \* the AgentBuilder's attributes
    built,          \* what build() came to: "" before it, "Agent", or the error
    chain,          \* the last with_* call: its name, its argument, the
                    \* builder's attributes before it, the object it returned;
                    \* and the attributes set by the calls so far
    argument,       \* per call: the contents of the list the caller passed as
                    \* `context`, as the caller sees them now
    events,         \* per call: the provider calls and tool executions so far
    agent,          \* the Agent's configuration (self.instructions, self.tools)
    input,          \* the caller's arguments: api, context, prompt
    script,         \* the provider's rounds, each a sequence of chunks
    pc,             \* per call: "idle", "stream", "tools", "done", "error"
    context,        \* per call: the local variable `context` of the current frame
    calls,          \* per call: the `messages` argument of every provider call
    chunks,         \* per call: what is left of the current streamed completion
    tool_calls,     \* per call: _stream_messages' accumulator `tool_calls`
    yielded,        \* per call: the deltas _stream_messages has yielded
    pending,        \* per call: message.tool_calls being resolved by _call_tools
    tool_messages,  \* per call: the tool messages _call_tools has built so far
    executed,       \* per call: the tool functions whose body has been entered
    returned,       \* per call: the context a non-streaming call returned
    response,       \* per call: what complete() gave its caller: the final
                    \* response, or the text chunks of the stream so far
    error           \* per call: the exception that left the call, or None

vars == <<builder, built, chain, argument, events, agent, input, script, pc,
          context, calls, chunks, tool_calls, yielded, pending, tool_messages,
          executed, returned, response, error>>

None == "<None>"

Calls == {"sync", "stream"}

IsStream(c) == c # "sync"

(***************************************************************************)
(* Bounds                                                                  *)
(***************************************************************************)
\* the number of tool-call rounds a provider script may hold before its
\* last round
MaxToolRounds == 2

(***************************************************************************)
(* Messages.  form tells a plain dict from a ChatCompletionMessage object. *)
(***************************************************************************)
Message(form, role, content, tcs, id) ==
    [form |-> form, role |-> role, content |-> content,
     tool_calls |-> tcs, tool_call_id |-> id]

\* msg.model_dump(exclude_none=True) if isinstance(msg, BaseModel) else msg
model_dump(msg) == [msg EXCEPT !.form = "dict"]

context_as_dicts(ctx) == [i \in 1..Len(ctx) |-> model_dump(ctx[i])]

\* a mutant of default_context: the conversation starts empty
default_context_empty(a) == <<>>

\* [{"role": "system", "content": self.instructions}]
default_context(a) == <<Message("dict", "system", a.instructions, <<>>, None)>>

\* Python truthiness of an Optional[str]
Truthy(s) == s # None /\ s # ""

(***************************************************************************)
(* Agent.__init__ and Agent._build_instructions.  A response format is     *)
(* None, a schema mapping (EmptySchema is the mapping without entries) or  *)
(* the BaseModel subclass User of tests/test_agent.py; params is a set of  *)
(* <<key, value>>.                                                         *)
(***************************************************************************)
EmptySchema == "{}"
JsonSchema  == "{\"type\": \"json_object\"}"
User        == "User"

\* bool(self.response_format): None and an empty mapping are false
format_truthy(rf) == rf \notin {None, EmptySchema}

\* isinstance(rf, type) and issubclass(rf, BaseModel)
is_model_type(rf) == rf = User

DefaultPersona == "You are a helpful and concise assistant."
ToolSentence   == "Use tools when relevant or requested."
JsonAfterTools ==
    "When you are finished with tool calls, your final response must be in a JSON format."
JsonAlways     == "You must output your response in a JSON format."

\* " ".join(parts), parts not empty
RECURSIVE join_space(_)
join_space(parts) ==
    IF Len(parts) = 1
    THEN Head(parts)
    ELSE (Head(parts) \o " ") \o join_space(Tail(parts))

\* a mutant of build_instructions: the tool sentence is left out
build_instructions_plain(instructions, tools, rf) ==
    LET base == IF instructions # None THEN instructions ELSE DefaultPersona
    IN  join_space(<<base>>
            \o (IF format_truthy(rf)
                THEN IF tools # <<>> THEN <<JsonAfterTools>> ELSE <<JsonAlways>>
                ELSE <<>>))

\* Agent._build_instructions, reading self.tools and self.response_format
build_instructions(instructions, tools, rf) ==
    LET base == IF instructions # None THEN instructions ELSE DefaultPersona
    IN  join_space(<<base>>
            \o (IF tools # <<>> THEN <<ToolSentence>> ELSE <<>>)
            \o (IF format_truthy(rf)
                THEN IF tools # <<>> THEN <<JsonAfterTools>> ELSE <<JsonAlways>>
                ELSE <<>>))

\* Agent.__init__; tools and params arrive from the builder as lists and
\* mappings, never None
Agent(model, instructions, tools, rf, prompt_template, params) ==
    [ model           |-> model,
      tools           |-> tools,
      response_format |-> rf,
      prompt_template |-> prompt_template,
      params          |-> params,
      instructions    |-> build_instructions(instructions, tools, rf) ]

\* the value of `agent` before build() has returned one
NoAgent ==
    [ model |-> None, tools |-> <<>>, response_format |-> None,
      prompt_template |-> None, params |-> {}, instructions |-> None ]

(***************************************************************************)
(* AgentBuilder: __init__, the with_* methods (each assigns one attribute  *)
(* and returns self) and build().                                          *)
(***************************************************************************)
AgentBuilder ==
    [ model |-> None, instructions |-> None, response_format |-> None,
      prompt_template |-> None, params |-> {}, tools |-> <<>> ]

with_model(b, model)                 == [b EXCEPT !.model = model]
with_instructions(b, instructions)   == [b EXCEPT !.instructions = instructions]
with_tools(b, tools)                 == [b EXCEPT !.tools = tools]
with_response_format(b, rf)          == [b EXCEPT !.response_format = rf]
with_prompt_template(b, template)    == [b EXCEPT !.prompt_template = template]
with_params(b, params)               == [b EXCEPT !.params = params]

\* a with_* call as the caller sees it
Chain(method, value, before, result, set) ==
    [method |-> method, argument |-> value, before |-> before,
     returned |-> result, set |-> set]

\* no with_* call is on record
NoChain == Chain(None, None, AgentBuilder, None, {})

\* a mutant of build_assert: the check is gone
build_assert_off(b) == TRUE

\* assert self.model is not None, "Model must be specified"
build_assert(b) == b.model # None

\* build(), once the assert has passed
build(b) ==
    Agent(b.model, b.instructions, b.tools, b.response_format,
          b.prompt_template, b.params)

(***************************************************************************)
(* Agent._build_user_message.  A prompt is None, a string, or a mapping    *)
(* (is_dict, its items a set of <<key, value>>).  A template is a format   *)
(* string; str.format reads it as literal text and named fields.           *)
(***************************************************************************)
Prompt(is_dict, text, items) == [is_dict |-> is_dict, text |-> text, items |-> items]

TextPrompt(text)  == Prompt(FALSE, text, {})
DictPrompt(items) == Prompt(TRUE, None, items)

Lit(text)   == [field |-> None, text |-> text]
Field(name) == [field |-> name, text |-> ""]

SummarizeTemplate == "Summarize: {text}"
StatisticTemplate == "What is the {statistic} of these numbers: {numbers}?"
BareTemplate      == "{text}"
FixedTemplate     == "Summarize the conversation."

\* the parts str.format finds in a format string
template_parts(template) ==
    CASE template = SummarizeTemplate -> <<Lit("Summarize: "), Field("text")>>
      [] template = StatisticTemplate ->
            <<Lit("What is the "), Field("statistic"),
              Lit(" of these numbers: "), Field("numbers"), Lit("?")>>
      [] template = BareTemplate      -> <<Field("text")>>
      [] template = ""                -> <<>>
      [] OTHER                        -> <<Lit(template)>>

Rendered(raised, text) == [raised |-> raised, text |-> text]

\* a mutant of format_field: a key the mapping lacks renders as nothing
format_field_lenient(part, items) ==
    IF part.field = None
    THEN Rendered(None, part.text)
    ELSE IF \E kv \in items : kv[1] = part.field
         THEN Rendered(None, (CHOOSE kv \in items : kv[1] = part.field)[2])
         ELSE Rendered(None, "")

\* one part of the format string: literal text as it is, a field by the
\* value of its key, a KeyError when the mapping has no such key
format_field(part, items) ==
    IF part.field = None
    THEN Rendered(None, part.text)
    ELSE IF \E kv \in items : kv[1] = part.field
         THEN Rendered(None, (CHOOSE kv \in items : kv[1] = part.field)[2])
         ELSE Rendered("KeyError", part.field)

\* the part-by-part work of self.prompt_template.format(...) over the mapping
RECURSIVE format_parts(_, _)
format_parts(parts, items) ==
    IF parts = <<>>
    THEN Rendered(None, "")
    ELSE LET first == format_field(Head(parts), items)
             rest == format_parts(Tail(parts), items)
         IN  IF first.raised # None THEN first
             ELSE IF rest.raised # None THEN rest
             ELSE Rendered(None, first.text \o rest.text)

\* prompt_str: the rendering of a mapping, a string or None as it is
prompt_str(a, prompt) ==
    IF prompt.is_dict
    THEN IF ~Truthy(a.prompt_template)
         THEN Rendered("ValueError", None)
         ELSE format_parts(template_parts(a.prompt_template), prompt.items)
    ELSE Rendered(None, prompt.text)

\* [{"role": "user", "content": prompt_str}] if prompt_str else []
build_user_message(a, prompt) ==
    LET text == prompt_str(a, prompt).text
    IN  IF Truthy(text)
        THEN <<Message("dict", "user", text, <<>>, None)>>
        ELSE <<>>

\* messages=context_as_dicts + user_message  (the provider call's argument)
completion_messages(ctx, user_message) == context_as_dicts(ctx) \o user_message

\* the context complete_with_context hands to _stream_messages and
\* _handle_tool_calls: `context` as received, not context + user_message
handled_context(ctx, user_message) == ctx

\* Agent._handle_tool_calls, first statement: context = context + [message]
handle_tool_calls(message, ctx) == ctx \o <<message>>

\* a mutant of recursion_context: the tool messages are left out
recursion_context_without(ctx, tms) == ctx

\* Agent._handle_tool_calls, the recursive call's argument:
\* context + tool_messages
recursion_context(ctx, tms) == ctx \o tms

(***************************************************************************)
(* json.loads on the argument texts the provider can send.  A parsed       *)
(* value is a mapping (its items a set of <<key, value>>), a list or,      *)
(* where the text is no JSON document, a JSONDecodeError.                  *)
(***************************************************************************)
JsonValue(kind, items) == [kind |-> kind, items |-> items]

json_loads(text) ==
    CASE text = "{\"user_id\": 123}" -> JsonValue("mapping", {<<"user_id", "123">>})
      [] text = "{\"user_id\": 7}"   -> JsonValue("mapping", {<<"user_id", "7">>})
      [] text = "{}"                 -> JsonValue("mapping", {})
      [] text = "[123]"              -> JsonValue("list", {})
      [] OTHER                       -> JsonValue("JSONDecodeError", {})

(***************************************************************************)
(* Tool functions.  A tool is [name, fn]: its __name__ and its body.       *)
(* tool_function is the call of a tool with the mapping unpacked:           *)
(*   raised  an exception came out of the call                             *)
(*   ran     the function body was entered                                 *)
(*   value   the returned value (kind, text) or the exception's message    *)
(***************************************************************************)
Tool(name, fn) == [name |-> name, fn |-> fn]

\* tests/test_agent.py get_user_name: "Alice" for user_id 123
get_user_name == Tool("get_user_name", "get_user_name")
\* a tool whose body raises
fail_tool == Tool("fail_tool", "fail_tool")
\* a tool that returns a number (str(content) is then a conversion)
count_users == Tool("count_users", "count_users")

Outcome(raised, ran, kind, text) ==
    [raised |-> raised, ran |-> ran, kind |-> kind, text |-> text]

Keys(arguments) == {kv[1] : kv \in arguments.items}

tool_function(fn, arguments) ==
    IF arguments.kind # "mapping"
    THEN Outcome(TRUE, FALSE, "TypeError",
                 "argument after ** must be a mapping, not " \o arguments.kind)
    ELSE CASE fn = "get_user_name" ->
                IF Keys(arguments) # {"user_id"}
                THEN Outcome(TRUE, FALSE, "TypeError",
                             "get_user_name() missing 1 required positional argument: 'user_id'")
                ELSE IF <<"user_id", "123">> \in arguments.items
                     THEN Outcome(FALSE, TRUE, "str", "Alice")
                     ELSE Outcome(FALSE, TRUE, "str", "Unknown User")
           [] fn = "fail_tool" ->
                IF Keys(arguments) # {"user_id"}
                THEN Outcome(TRUE, FALSE, "TypeError",
                             "fail_tool() missing 1 required positional argument: 'user_id'")
                ELSE Outcome(TRUE, TRUE, "ValueError", "no such user")
           [] OTHER ->
                IF Keys(arguments) # {}
                THEN Outcome(TRUE, FALSE, "TypeError",
                             "count_users() got an unexpected keyword argument 'user_id'")
                ELSE Outcome(FALSE, TRUE, "int", "2")

\* str(content)
str(outcome) == outcome.text

ErrorPrefix == "Error executing tool: "

\* a mutant of execute_tool_call: the exception text is returned bare
execute_tool_call_bare(fn, arguments) ==
    str(tool_function(fn, arguments))

\* Agent._execute_tool_call: try: content = tool_function(ARGS) with the mapping unpacked
\* except Exception as e: content = f"Error executing tool: {e}"; str(content)
execute_tool_call(fn, arguments) ==
    LET out == tool_function(fn, arguments)
    IN  IF out.raised THEN ErrorPrefix \o out.text ELSE str(out)

\* tool_dict = {tool.__name__: tool for tool in self.tools}: the registered
\* names, and for a name the entry a dict comprehension keeps (the last)
tool_names(tools) == {tools[i].name : i \in 1..Len(tools)}

\* a mutant of tool_dict: the first function of a name is kept
tool_dict_first(tools, name) ==
    LET first == CHOOSE i \in 1..Len(tools) :
                     /\ tools[i].name = name
                     /\ \A j \in 1..(i - 1) : tools[j].name # name
    IN  tools[first]

tool_dict(tools, name) ==
    LET last == CHOOSE i \in 1..Len(tools) :
                    /\ tools[i].name = name
                    /\ \A j \in (i+1)..Len(tools) : tools[j].name # name
    IN  tools[last]

\* a mutant of tool_message: the message is keyed by the function's name
tool_message_by_name(tool_call, content) ==
    Message("dict", "tool", content, <<>>, tool_call.name)

\* one element of _call_tools' list: {"role": "tool", "tool_call_id": ...,
\* "content": ...}
tool_message(tool_call, content) ==
    Message("dict", "tool", content, <<>>, tool_call.id)

(***************************************************************************)
(* Streaming: chunks, tool-call deltas and _stream_messages' accumulator.  *)
(***************************************************************************)
Delta(index, id, name, arguments) ==
    [index |-> index, id |-> id, name |-> name, arguments |-> arguments]

\* chunk.choices[0].delta
Chunk(content, deltas) == [content |-> content, tool_calls |-> deltas]

ToolCall(id, name, arguments) ==
    [id |-> id, name |-> name, arguments |-> arguments]

\* a mutant of stream_assert: the check is gone
stream_assert_off(delta, tcs) == TRUE

\* assert not (delta.content and tool_calls)
stream_assert(delta, tcs) == ~(Truthy(delta.content) /\ tcs # <<>>)

Merged(ok, tcs) == [ok |-> ok, tcs |-> tcs]

\* a mutant of merge_tool_call: a continuation is appended to the newest
\* entry, whatever its index
merge_tool_call_newest(tcs, d) ==
    IF d.index = Len(tcs)
    THEN Merged(TRUE, Append(tcs, d))
    ELSE IF d.index < Len(tcs)
         THEN Merged(TRUE, [tcs EXCEPT ![Len(tcs)].arguments = @ \o d.arguments])
         ELSE Merged(FALSE, tcs)

\* the body of `for tool_call_delta in delta.tool_calls`: a delta whose index
\* is len(tool_calls) is appended, any other is merged into
\* tool_calls[index], an IndexError when there is no such entry
merge_tool_call(tcs, d) ==
    IF d.index = Len(tcs)
    THEN Merged(TRUE, Append(tcs, d))
    ELSE IF d.index < Len(tcs)
         THEN Merged(TRUE, [tcs EXCEPT ![d.index + 1].arguments = @ \o d.arguments])
         ELSE Merged(FALSE, tcs)

RECURSIVE merge_tool_calls(_, _)
merge_tool_calls(tcs, deltas) ==
    IF deltas = <<>>
    THEN Merged(TRUE, tcs)
    ELSE LET m == merge_tool_call(tcs, Head(deltas))
         IN  IF m.ok THEN merge_tool_calls(m.tcs, Tail(deltas)) ELSE m

\* a mutant of completed_tool_calls: the accumulated calls in reverse order
completed_tool_calls_reversed(tcs) ==
    [i \in 1..Len(tcs) |->
        ToolCall(tcs[Len(tcs) + 1 - i].id, tcs[Len(tcs) + 1 - i].name,
                 tcs[Len(tcs) + 1 - i].arguments)]

\* completed_tool_calls and the synthetic assistant message
completed_tool_calls(tcs) ==
    [i \in 1..Len(tcs) |-> ToolCall(tcs[i].id, tcs[i].name, tcs[i].arguments)]

stream_message(tcs) ==
    Message("object", "assistant", None, completed_tool_calls(tcs), None)

\* a mutant of stream_content: chunks without text are yielded too
stream_content_all(deltas) ==
    [i \in 1..Len(deltas) |-> deltas[i].content]

\* Agent._stream_content: the content of the deltas whose content is not None
RECURSIVE stream_content(_)
stream_content(deltas) ==
    IF deltas = <<>>
    THEN <<>>
    ELSE IF Head(deltas).content # None
         THEN <<Head(deltas).content>> \o stream_content(Tail(deltas))
         ELSE stream_content(Tail(deltas))

\* "".join(parts)
RECURSIVE join(_)
join(parts) == IF parts = <<>> THEN "" ELSE Head(parts) \o join(Tail(parts))

(***************************************************************************)
(* The provider.  A round of the script is the sequence of chunks the      *)
(* provider streams; asked without streaming it returns the one message    *)
(* those chunks stand for: their text joined, and one tool call per index  *)
(* with the argument chunks of that index joined.                          *)
(***************************************************************************)
RECURSIVE flat_deltas(_)
flat_deltas(cs) ==
    IF cs = <<>> THEN <<>> ELSE Head(cs).tool_calls \o flat_deltas(Tail(cs))

RECURSIVE arguments_of(_, _)
arguments_of(ds, index) ==
    IF ds = <<>>
    THEN ""
    ELSE (IF Head(ds).index = index THEN Head(ds).arguments ELSE "")
         \o arguments_of(Tail(ds), index)

\* the deltas that open an index, in arrival order
RECURSIVE openers(_, _)
openers(ds, seen) ==
    IF ds = <<>>
    THEN <<>>
    ELSE IF Head(ds).index \in seen
         THEN openers(Tail(ds), seen)
         ELSE <<Head(ds)>> \o openers(Tail(ds), seen \cup {Head(ds).index})

round_tool_calls(cs) ==
    LET ds == flat_deltas(cs)
        os == openers(ds, {})
    IN  [i \in 1..Len(os) |->
            ToolCall(os[i].id, os[i].name, arguments_of(ds, os[i].index))]

RECURSIVE round_text(_)
round_text(cs) ==
    IF cs = <<>>
    THEN ""
    ELSE (IF Head(cs).content = None THEN "" ELSE Head(cs).content)
         \o round_text(Tail(cs))

round_content(cs) ==
    IF \A i \in 1..Len(cs) : cs[i].content = None THEN None ELSE round_text(cs)

\* completion.choices[0].message of a non-streaming provider call
round_message(cs) ==
    Message("object", "assistant", round_content(cs), round_tool_calls(cs), None)

\* the chunks of provider call number r; a provider asked beyond its script
\* answers with an empty final turn
provider_round(r) ==
    IF r <= Len(script) THEN script[r] ELSE <<Chunk("", <<>>)>>

(***************************************************************************)
(* One element of _call_tools' list comprehension, in Python's evaluation  *)
(* order: tool_dict[name] (KeyError), json.loads (JSONDecodeError), then   *)
(* _execute_tool_call, which returns text whatever the tool does.          *)
(***************************************************************************)
Resolved(status, message, ran) ==
    [status |-> status, message |-> message, ran |-> ran]

\* a mutant of call_tool: an unknown name is answered with an error text,
\* as a failed execution is
call_tool_lenient(tools, tool_call) ==
    IF tool_call.name \notin tool_names(tools)
    THEN Resolved("ok", tool_message(tool_call, ErrorPrefix \o tool_call.name), FALSE)
    ELSE LET arguments == json_loads(tool_call.arguments)
             fn == tool_dict(tools, tool_call.name).fn
         IN  IF arguments.kind = "JSONDecodeError"
             THEN Resolved("JSONDecodeError", tool_message(tool_call, None), FALSE)
             ELSE Resolved("ok",
                           tool_message(tool_call, execute_tool_call(fn, arguments)),
                           tool_function(fn, arguments).ran)

call_tool(tools, tool_call) ==
    IF tool_call.name \notin tool_names(tools)
    THEN Resolved("KeyError", tool_message(tool_call, None), FALSE)
    ELSE LET arguments == json_loads(tool_call.arguments)
             fn == tool_dict(tools, tool_call.name).fn
         IN  IF arguments.kind = "JSONDecodeError"
             THEN Resolved("JSONDecodeError", tool_message(tool_call, None), FALSE)
             ELSE Resolved("ok",
                           tool_message(tool_call, execute_tool_call(fn, arguments)),
                           tool_function(fn, arguments).ran)

(***************************************************************************)
(* Agent._get_final_response.  last_message.parsed is the payload the      *)
(* provider parsed out of the message: a mapping, or None when the content *)
(* is no JSON document.  User is the BaseModel of tests/test_agent.py      *)
(* (name: str, age: int); calling it validates the payload.                *)
(***************************************************************************)
PayloadUser    == "{\"name\": \"Jean-Luc\", \"age\": 59}"
PayloadNoAge   == "{\"name\": \"Jean-Luc\"}"
PayloadBadAge  == "{\"name\": \"Jean-Luc\", \"age\": \"old\"}"
PayloadExtra   == "{\"name\": \"Jean-Luc\", \"age\": 59, \"rank\": \"Captain\"}"

JsonItem(key, kind, text) == <<key, [kind |-> kind, text |-> text]>>

\* message.parsed
parsed(message) ==
    CASE message.content = PayloadUser ->
            JsonValue("mapping", {JsonItem("name", "str", "Jean-Luc"),
                                  JsonItem("age", "int", "59")})
      [] message.content = PayloadNoAge ->
            JsonValue("mapping", {JsonItem("name", "str", "Jean-Luc")})
      [] message.content = PayloadBadAge ->
            JsonValue("mapping", {JsonItem("name", "str", "Jean-Luc"),
                                  JsonItem("age", "str", "old")})
      [] message.content = PayloadExtra ->
            JsonValue("mapping", {JsonItem("name", "str", "Jean-Luc"),
                                  JsonItem("age", "int", "59"),
                                  JsonItem("rank", "str", "Captain")})
      [] OTHER -> JsonValue("None", {})

Returned(raised, value) == [raised |-> raised, value |-> value]

\* User(name=..., age=...) with the payload unpacked: a TypeError when the
\* payload is no mapping, a ValidationError when a field is missing or has
\* the wrong type; a key that is no field is ignored
model_validate(payload) ==
    IF payload.kind # "mapping"
    THEN Returned("TypeError", None)
    ELSE IF /\ JsonItem("name", "str", "Jean-Luc") \in payload.items
            /\ JsonItem("age", "int", "59") \in payload.items
         THEN Returned(None, [type |-> User, name |-> "Jean-Luc", age |-> "59"])
         ELSE Returned("ValidationError", None)

\* a mutant of get_final_response: the first message answers
get_final_response_first(a, completion_context) ==
    LET last_message == completion_context[1]
    IN  IF ~format_truthy(a.response_format)
        THEN Returned(None, last_message.content)
        ELSE IF is_model_type(a.response_format)
             THEN model_validate(parsed(last_message))
             ELSE Returned(None, parsed(last_message))

get_final_response(a, completion_context) ==
    LET last_message == completion_context[Len(completion_context)]
    IN  IF ~format_truthy(a.response_format)
        THEN Returned(None, last_message.content)
        ELSE IF is_model_type(a.response_format)
             THEN model_validate(parsed(last_message))
             ELSE Returned(None, parsed(last_message))

(***************************************************************************)
(* The provider scripts.                                                   *)
(***************************************************************************)
ArgsValid    == <<"{\"user_id\"", ": 123}">>
ArgsOther    == <<"{\"user_id\"", ": 7}">>
ArgsEmpty    == <<"", "{}">>
ArgsList     == <<"[12", "3]">>
ArgsCut      == <<"{\"user_id\"", ": ">>

CallKind(name, args) == [name |-> name, args |-> args]

\* tool calls that _call_tools resolves to a tool message
GoodKinds ==
    { CallKind("get_user_name", ArgsValid), CallKind("get_user_name", ArgsEmpty),
      CallKind("get_user_name", ArgsList),  CallKind("fail_tool", ArgsValid),
      CallKind("count_users", ArgsEmpty) }

\* tool calls that end the call: an unregistered name, a payload that is
\* no JSON document
FatalKinds ==
    { CallKind("get_weather", ArgsValid), CallKind("get_user_name", ArgsCut),
      CallKind("get_weather", ArgsCut) }

CallKinds == GoodKinds \cup FatalKinds

CallId(i) == IF i = 1 THEN "call_1" ELSE IF i = 2 THEN "call_2" ELSE "call_n"

\* the delta that opens tool call i of a round, and the one that continues it
Open(kinds, i) == Delta(i - 1, CallId(i), kinds[i].name, kinds[i].args[1])
Cont(kinds, i) == Delta(i - 1, None, None, kinds[i].args[2])

\* every call streamed whole before the next one starts
RECURSIVE SeqChunks(_, _)
SeqChunks(kinds, i) ==
    IF i > Len(kinds)
    THEN <<>>
    ELSE <<Chunk(None, <<Open(kinds, i)>>), Chunk(None, <<Cont(kinds, i)>>)>>
         \o SeqChunks(kinds, i + 1)

\* every call opened in the first chunk, then continued last call first
InterleavedChunks(kinds) ==
    <<Chunk(None, [i \in 1..Len(kinds) |-> Open(kinds, i)])>>
    \o [j \in 1..Len(kinds) |-> Chunk(None, <<Cont(kinds, Len(kinds) + 1 - j)>>)]

Preamble == "Let me look that up. "

Styled(kinds, style) ==
    CASE style = "seq"         -> SeqChunks(kinds, 1)
      [] style = "interleaved" -> InterleavedChunks(kinds)
      [] style = "text_first"  -> <<Chunk(Preamble, <<>>)>> \o SeqChunks(kinds, 1)
      [] style = "text_last"   -> SeqChunks(kinds, 1) \o <<Chunk(Preamble, <<>>)>>
      [] style = "empty_last"  -> SeqChunks(kinds, 1) \o <<Chunk("", <<>>)>>
      [] OTHER                 -> <<Chunk(Preamble, <<Open(kinds, 1)>>),
                                    Chunk(None, <<Cont(kinds, 1)>>)>>
                                  \o SeqChunks(kinds, 2)

Styles == {"interleaved", "text_first", "text_last", "empty_last", "text_with"}

KindLists == { <<k>> : k \in CallKinds } \cup { <<k1, k2>> : k1, k2 \in CallKinds }

StyledLists ==
    { <<CallKind("get_user_name", ArgsValid)>>,
      <<CallKind("fail_tool", ArgsValid), CallKind("get_user_name", ArgsOther)>> }

\* the first tool-call round of a script
FirstRounds ==
    { Styled(ks, "seq") : ks \in KindLists }
    \cup { Styled(ks, st) : ks \in StyledLists, st \in Styles }

\* the tool-call rounds after the first
LaterRounds ==
    { Styled(<<CallKind("get_user_name", ArgsOther)>>, "seq"),
      Styled(<<CallKind("count_users", ArgsEmpty),
               CallKind("get_user_name", ArgsValid)>>, "interleaved") }

\* the last round: text and no tool call
FinalRounds ==
    { <<Chunk("Alice", <<>>)>>,
      <<Chunk("", <<>>), Chunk("The user is ", <<>>), Chunk("Alice.", <<>>),
        Chunk(None, <<>>)>>,
      <<Chunk(None, <<>>)>> }

RECURSIVE LaterSeqs(_)
LaterSeqs(n) ==
    IF n = 0
    THEN { <<>> }
    ELSE LET shorter == LaterSeqs(n - 1)
         IN  shorter \cup { Append(s, r) : s \in shorter, r \in LaterRounds }

Scripts ==
    { <<f>> : f \in FinalRounds }
    \cup { (<<first>> \o later) \o <<f>> :
             first \in FirstRounds, later \in LaterSeqs(MaxToolRounds - 1),
             f \in FinalRounds }

(***************************************************************************)
(* The Agent and the caller's arguments.                                   *)
(***************************************************************************)
\* Agent(model, tools=[get_user_name, fail_tool, count_users]): the
\* instructions are what _build_instructions derives for tools and no
\* response format
Instructions ==
    "You are a helpful and concise assistant. Use tools when relevant or requested."

Model == "test_provider/test_model"

\* the builder the agent of the tool-loop specifications is built from
ToolBuilder ==
    with_tools(with_model(AgentBuilder, Model),
               <<get_user_name, fail_tool, count_users>>)

Agents == { build(ToolBuilder) }

Question == "What is the username for user ID 123?"

Prompts == {None, "", Question}

\* the contexts a caller passes: None (the default), an empty list, the
\* history of an earlier turn
PriorContext ==
    << Message("dict", "system", Instructions, <<>>, None),
       Message("dict", "user", "Hello", <<>>, None),
       Message("object", "assistant", "Hi! How can I help?", <<>>, None) >>

Input(api, given, ctx, prompt) ==
    [api |-> api, given |-> given, context |-> ctx, prompt |-> prompt,
     is_dict |-> FALSE, items |-> {}]

\* a call whose prompt is a mapping
DictInput(api, given, ctx, items) ==
    [api |-> api, given |-> given, context |-> ctx, prompt |-> None,
     is_dict |-> TRUE, items |-> items]

Inputs ==
    { Input("complete", FALSE, <<>>, p) : p \in Prompts }
    \cup { Input("complete_with_context", FALSE, <<>>, p) : p \in Prompts }
    \cup { Input("complete_with_context", TRUE, ctx, p) :
             ctx \in {<<>>, PriorContext}, p \in Prompts }

Init ==
    /\ builder = ToolBuilder /\ built = "Agent" /\ chain = NoChain
    /\ agent \in Agents
    /\ input \in Inputs
    /\ script \in Scripts
    /\ pc = [c \in Calls |-> "idle"]
    /\ argument = [c \in Calls |-> input.context]
    /\ events = [c \in Calls |-> <<>>]
    /\ context = [c \in Calls |-> <<>>]
    /\ calls = [c \in Calls |-> <<>>]
    /\ chunks = [c \in Calls |-> <<>>]
    /\ tool_calls = [c \in Calls |-> <<>>]
    /\ yielded = [c \in Calls |-> <<>>]
    /\ pending = [c \in Calls |-> <<>>]
    /\ tool_messages = [c \in Calls |-> <<>>]
    /\ executed = [c \in Calls |-> <<>>]
    /\ returned = [c \in Calls |-> <<>>]
    /\ response = [c \in Calls |-> IF IsStream(c) THEN <<>> ELSE None]
    /\ error = [c \in Calls |-> None]

Finished(c) == pc[c] \in {"done", "error"}

(***************************************************************************)
(* Agent.complete_with_context(ctx, prompt, stream) from its first line to *)
(* its return.  Streaming, it returns the generator _stream_messages       *)
(* (completion, context), whose body has not started.  Not streaming, it   *)
(* returns _handle_tool_calls(message, context), which appends the message *)
(* and, when the message has tool calls, goes on to _call_tools; the       *)
(* context it returns in the end goes, in complete(), through              *)
(* _get_final_response.                                                    *)
(***************************************************************************)
\* the Agent method the caller of call c entered
api(c) ==
    IF input.api = "mixed"
    THEN IF IsStream(c) THEN "complete" ELSE "complete_with_context"
    ELSE input.api

\* the caller's `prompt` argument
prompt_of(inp) == Prompt(inp.is_dict, inp.prompt, inp.items)

NoCall == ToolCall(None, None, None)

\* any_llm.completion is called for the r-th time in a call
Completion(r) == [kind |-> "completion", round |-> r, tool_call |-> NoCall]
\* _execute_tool_call is called for a tool call of round r
Execution(r, tool_call) == [kind |-> "execute", round |-> r, tool_call |-> tool_call]

\* `context`, in the frame of call c that issued provider call r, names the
\* list the caller passed: only the frame the caller entered was given it
names_argument(c, r) ==
    r = 1 /\ api(c) = "complete_with_context" /\ input.given

\* a mutant of context_rebound: the message is appended in place
context_extended(old, message) == old \o <<message>>

\* context = context + [message] binds the name to a new list: what the
\* list it named before holds afterwards
context_rebound(old, message) == old

\* tool_calls = [] is a local of the generator: one accumulator per call
accumulator_shared(c) == "stream"

accumulator(c) == c

\* a mutant of next_tool_call: the list is walked from its end
next_tool_call_reversed(tcs, done) == tcs[Len(tcs) - Len(done)]

\* for tool_call in tool_calls: the call after those already answered
next_tool_call(tcs, done) == tcs[Len(done) + 1]

complete_with_context(c, ctx, prompt) ==
    LET rendered == prompt_str(agent, prompt)
        user_message == build_user_message(agent, prompt)
        messages == completion_messages(ctx, user_message)
        kept == handled_context(ctx, user_message)
        r == Len(calls[c]) + 1
        message == round_message(provider_round(r))
        out == handle_tool_calls(message, kept)
        final == get_final_response(agent, out)
    IN  IF rendered.raised # None
        THEN /\ pc' = [pc EXCEPT ![c] = "error"]
             /\ error' = [error EXCEPT ![c] = rendered.raised]
             /\ UNCHANGED <<calls, events, tool_messages, tool_calls, chunks,
                            context, pending, argument, returned, response>>
        ELSE /\ calls' = [calls EXCEPT ![c] = Append(@, messages)]
             /\ events' = [events EXCEPT ![c] = Append(@, Completion(r))]
             /\ tool_messages' = [tool_messages EXCEPT ![c] = <<>>]
             /\ IF IsStream(c)
                THEN /\ chunks' = [chunks EXCEPT ![c] = provider_round(r)]
                     /\ tool_calls' = [tool_calls EXCEPT ![accumulator(c)] = <<>>]
                     /\ context' = [context EXCEPT ![c] = kept]
                     /\ pending' = [pending EXCEPT ![c] = <<>>]
                     /\ pc' = [pc EXCEPT ![c] = "stream"]
                     /\ UNCHANGED <<argument, returned, response, error>>
                ELSE /\ context' = [context EXCEPT ![c] = out]
                     /\ pending' = [pending EXCEPT ![c] = message.tool_calls]
                     /\ argument' = [argument EXCEPT ![c] =
                                        IF names_argument(c, r)
                                        THEN context_rebound(@, message)
                                        ELSE @]
                     /\ IF message.tool_calls # <<>>
                        THEN /\ pc' = [pc EXCEPT ![c] = "tools"]
                             /\ UNCHANGED <<returned, response, error>>
                        ELSE /\ returned' = [returned EXCEPT ![c] = out]
                             /\ IF api(c) = "complete" /\ final.raised # None
                                THEN /\ pc' = [pc EXCEPT ![c] = "error"]
                                     /\ error' = [error EXCEPT ![c] = final.raised]
                                     /\ UNCHANGED response
                                ELSE /\ pc' = [pc EXCEPT ![c] = "done"]
                                     /\ response' = [response EXCEPT ![c] =
                                            IF api(c) = "complete"
                                            THEN final.value
                                            ELSE @]
                                     /\ UNCHANGED error
                     /\ UNCHANGED <<chunks, tool_calls>>

\* agent.complete(prompt, stream) is entered: a fresh context
CallComplete(c) ==
    /\ pc[c] = "idle"
    /\ api(c) = "complete"
    /\ complete_with_context(c, default_context(agent), prompt_of(input))
    /\ UNCHANGED <<builder, built, chain, agent, input, script, yielded, executed>>

\* agent.complete_with_context(context, prompt, stream) is entered
CallCompleteWithContext(c) ==
    /\ pc[c] = "idle"
    /\ api(c) = "complete_with_context"
    /\ complete_with_context(
            c, IF input.given THEN input.context ELSE default_context(agent),
            prompt_of(input))
    /\ UNCHANGED <<builder, built, chain, agent, input, script, yielded, executed>>

\* the caller calls agent.complete; it makes its streaming call once its
\* non-streaming call has ended
Complete(c) ==
    /\ IsStream(c) => Finished("sync")
    /\ CallComplete(c)

\* the caller calls agent.complete_with_context, in the same order
CompleteWithContext(c) ==
    /\ IsStream(c) => Finished("sync")
    /\ CallCompleteWithContext(c)

\* _call_tools resolves the next tool call of message.tool_calls
CallTool(c) ==
    /\ pc[c] = "tools"
    /\ Len(tool_messages[c]) < Len(pending[c])
    /\ LET tool_call == next_tool_call(pending[c], tool_messages[c])
           r == call_tool(agent.tools, tool_call)
       IN  IF r.status = "ok"
           THEN /\ tool_messages' = [tool_messages EXCEPT ![c] = Append(@, r.message)]
                /\ executed' = [executed EXCEPT ![c] =
                                    IF r.ran THEN Append(@, tool_call) ELSE @]
                /\ events' = [events EXCEPT ![c] =
                                    Append(@, Execution(Len(calls[c]), tool_call))]
                /\ UNCHANGED <<pc, error>>
           ELSE /\ pc' = [pc EXCEPT ![c] = "error"]
                /\ error' = [error EXCEPT ![c] = r.status]
                /\ UNCHANGED <<tool_messages, executed, events>>
    /\ UNCHANGED <<builder, built, chain, agent, input, script, context, calls,
                   chunks, tool_calls, yielded, pending, returned, response,
                   argument>>

\* _handle_tool_calls, with every tool message built, recurses into
\* complete_with_context(context + tool_messages, stream=stream)
NextRound(c) ==
    /\ pc[c] = "tools"
    /\ Len(tool_messages[c]) = Len(pending[c])
    /\ complete_with_context(
            c, recursion_context(context[c], tool_messages[c]), TextPrompt(None))
    /\ UNCHANGED <<builder, built, chain, agent, input, script, yielded, executed>>

\* a mutant of exhausted: the loop is left with chunks still to come
exhausted_early(cs) == TRUE

\* for chunk in completions: the loop ends when the completion has no chunk
\* left, and only then are accumulated tool calls handled
exhausted(cs) == cs = <<>>

\* _stream_messages takes the next chunk of the completion; what it yields
\* goes, in complete(), through _stream_content
StreamChunk(c) ==
    /\ pc[c] = "stream"
    /\ chunks[c] # <<>>
    /\ LET delta == Head(chunks[c])
           acc == accumulator(c)
           m == merge_tool_calls(tool_calls[acc], delta.tool_calls)
       IN  IF ~stream_assert(delta, tool_calls[acc])
           THEN /\ pc' = [pc EXCEPT ![c] = "error"]
                /\ error' = [error EXCEPT ![c] = "AssertionError"]
                /\ UNCHANGED <<chunks, tool_calls, yielded, response>>
           ELSE IF delta.tool_calls # <<>>
                THEN IF m.ok
                     THEN /\ tool_calls' = [tool_calls EXCEPT ![acc] = m.tcs]
                          /\ chunks' = [chunks EXCEPT ![c] = Tail(@)]
                          /\ UNCHANGED <<pc, error, yielded, response>>
                     ELSE /\ pc' = [pc EXCEPT ![c] = "error"]
                          /\ error' = [error EXCEPT ![c] = "IndexError"]
                          /\ UNCHANGED <<chunks, tool_calls, yielded, response>>
                ELSE /\ yielded' = [yielded EXCEPT ![c] = Append(@, delta)]
                     /\ response' = [response EXCEPT ![c] =
                                        IF api(c) = "complete"
                                        THEN stream_content(yielded'[c])
                                        ELSE @]
                     /\ chunks' = [chunks EXCEPT ![c] = Tail(@)]
                     /\ UNCHANGED <<pc, error, tool_calls>>
    /\ UNCHANGED <<builder, built, chain, agent, input, script, context, calls,
                   pending, tool_messages, executed, returned, argument, events>>

\* the completion is exhausted: with tool calls accumulated the synthetic
\* message goes to _handle_tool_calls(message, context, stream=True),
\* without any the generator ends
StreamEnd(c) ==
    /\ pc[c] = "stream"
    /\ exhausted(chunks[c])
    /\ IF tool_calls[accumulator(c)] # <<>>
       THEN LET message == stream_message(tool_calls[accumulator(c)])
            IN  /\ context' = [context EXCEPT ![c] =
                                    handle_tool_calls(message, context[c])]
                /\ argument' = [argument EXCEPT ![c] =
                                    IF names_argument(c, Len(calls[c]))
                                    THEN context_rebound(@, message)
                                    ELSE @]
                /\ pending' = [pending EXCEPT ![c] = message.tool_calls]
                /\ tool_messages' = [tool_messages EXCEPT ![c] = <<>>]
                /\ pc' = [pc EXCEPT ![c] = "tools"]
       ELSE /\ pc' = [pc EXCEPT ![c] = "done"]
            /\ UNCHANGED <<context, pending, tool_messages, argument>>
    /\ UNCHANGED <<builder, built, chain, agent, input, script, calls, chunks,
                   tool_calls, yielded, executed, returned, response, error,
                   events>>

Next ==
    \E c \in Calls :
        \/ Complete(c)
        \/ CompleteWithContext(c)
        \/ CallTool(c)
        \/ NextRound(c)
        \/ StreamChunk(c)
        \/ StreamEnd(c)

Spec == Init /\ [][Next]_vars

(***************************************************************************)
(* A second set of provider scripts: one streamed turn made of any chunks  *)
(* of a small alphabet, in any order, and then a last round of text.       *)
(***************************************************************************)
\* the number of chunks of the streamed turn
MaxChunks == 3

FragOpen0 == Delta(0, "call_1", "get_user_name", "{\"user_id\"")
FragCont0 == Delta(0, None, None, ": 123}")
FragOpen1 == Delta(1, "call_2", "count_users", "")
FragCont1 == Delta(1, None, None, "{}")

FragChunks ==
    { Chunk(None, <<d>>) : d \in {FragOpen0, FragCont0, FragOpen1, FragCont1} }
    \cup { Chunk(None, <<FragOpen0, FragOpen1>>),
           Chunk(Preamble, <<FragOpen0>>),
           Chunk(Preamble, <<>>), Chunk("", <<>>), Chunk(None, <<>>) }

RECURSIVE FragTurns(_)
FragTurns(n) ==
    IF n = 0
    THEN { <<>> }
    ELSE LET shorter == FragTurns(n - 1)
         IN  shorter \cup { Append(t, ch) : t \in shorter, ch \in FragChunks }

FragScripts ==
    { <<t, <<Chunk("Al", <<>>), Chunk("ice", <<>>)>> >> : t \in FragTurns(MaxChunks) }

FragInputs ==
    { Input("complete", FALSE, <<>>, Question),
      Input("complete_with_context", FALSE, <<>>, None) }

InitFrag ==
    /\ builder = ToolBuilder /\ built = "Agent" /\ chain = NoChain
    /\ agent \in Agents
    /\ input \in FragInputs
    /\ script \in FragScripts
    /\ pc = [c \in Calls |-> "idle"]
    /\ argument = [c \in Calls |-> input.context]
    /\ events = [c \in Calls |-> <<>>]
    /\ context = [c \in Calls |-> <<>>]
    /\ calls = [c \in Calls |-> <<>>]
    /\ chunks = [c \in Calls |-> <<>>]
    /\ tool_calls = [c \in Calls |-> <<>>]
    /\ yielded = [c \in Calls |-> <<>>]
    /\ pending = [c \in Calls |-> <<>>]
    /\ tool_messages = [c \in Calls |-> <<>>]
    /\ executed = [c \in Calls |-> <<>>]
    /\ returned = [c \in Calls |-> <<>>]
    /\ response = [c \in Calls |-> IF IsStream(c) THEN <<>> ELSE None]
    /\ error = [c \in Calls |-> None]

SpecFrag == InitFrag /\ [][Next]_vars

(***************************************************************************)
(* Agents of many configurations: every combination of instructions,       *)
(* tools and response format, and every prompt template; callers that pass *)
(* a mapping as the prompt; providers whose last message carries a payload.*)
(***************************************************************************)
TestInstructions == "You are a test assistant."

ConfigBuilders ==
    { with_prompt_template(
          with_response_format(
              with_tools(with_instructions(with_model(AgentBuilder, Model), i), t),
              rf),
          SummarizeTemplate) :
        i \in {None, "", TestInstructions},
        t \in {<<>>, <<get_user_name>>},
        rf \in {None, EmptySchema, JsonSchema, User} }
    \cup { with_prompt_template(with_model(AgentBuilder, Model), pt) :
             pt \in {"", StatisticTemplate, BareTemplate, FixedTemplate} }
    \cup { with_model(AgentBuilder, Model) }

ConfigItems ==
    { {<<"text", "hello">>}, {}, {<<"text", "">>},
      {<<"text", "hello">>, <<"lang", "en">>},
      {<<"statistic", "mean">>, <<"numbers", "1, 2, 3">>},
      {<<"statistic", "mean">>} }

\* api "mixed": the first call is complete_with_context on the history of
\* an earlier turn, the second is complete, on the same Agent
ConfigInputs ==
    { Input("complete", FALSE, <<>>, p) : p \in Prompts }
    \cup { DictInput("complete", FALSE, <<>>, items) : items \in ConfigItems }
    \cup { DictInput("complete_with_context", TRUE, PriorContext, {<<"text", "hello">>}),
           DictInput("complete_with_context", FALSE, <<>>, {<<"lang", "en">>}),
           Input("complete_with_context", TRUE, PriorContext, None),
           Input("mixed", TRUE, PriorContext, Question),
           DictInput("mixed", TRUE, PriorContext, {<<"text", "hello">>}) }

\* a tool-call round whose message carries a payload of its own
PayloadRound ==
    <<Chunk(PayloadExtra, <<>>)>>
    \o SeqChunks(<<CallKind("get_user_name", ArgsValid)>>, 1)

ConfigScripts ==
    { <<<<Chunk(content, <<>>)>>>> :
        content \in {PayloadUser, PayloadNoAge, PayloadBadAge, PayloadExtra,
                     "Alice", None} }
    \cup { <<PayloadRound, <<Chunk(PayloadUser, <<>>)>>>>,
           <<SeqChunks(<<CallKind("get_user_name", ArgsValid)>>, 1),
             <<Chunk("{\"name\": ", <<>>), Chunk("\"Jean-Luc\"}", <<>>)>>>> }

InitConfig ==
    /\ builder \in ConfigBuilders /\ built = "Agent" /\ chain = NoChain
    /\ agent = build(builder)
    /\ input \in ConfigInputs
    /\ script \in ConfigScripts
    /\ pc = [c \in Calls |-> "idle"]
    /\ argument = [c \in Calls |-> input.context]
    /\ events = [c \in Calls |-> <<>>]
    /\ context = [c \in Calls |-> <<>>]
    /\ calls = [c \in Calls |-> <<>>]
    /\ chunks = [c \in Calls |-> <<>>]
    /\ tool_calls = [c \in Calls |-> <<>>]
    /\ yielded = [c \in Calls |-> <<>>]
    /\ pending = [c \in Calls |-> <<>>]
    /\ tool_messages = [c \in Calls |-> <<>>]
    /\ executed = [c \in Calls |-> <<>>]
    /\ returned = [c \in Calls |-> <<>>]
    /\ response = [c \in Calls |-> IF IsStream(c) THEN <<>> ELSE None]
    /\ error = [c \in Calls |-> None]

SpecConfig == InitConfig /\ [][Next]_vars

(***************************************************************************)
(* The builder on its own: any sequence of with_* calls, then build().     *)
(***************************************************************************)
BuilderModels       == {Model, "ollama/llama3"}
BuilderInstructions == {"", TestInstructions}
BuilderTools        == {<<>>, <<get_user_name>>, <<get_user_name, count_users>>}
BuilderFormats      == {EmptySchema, JsonSchema, User}
BuilderTemplates    == {"", SummarizeTemplate}
BuilderParams       == {{}, {<<"temperature", "0.5">>}}

InitBuilder ==
    /\ builder = AgentBuilder /\ built = "" /\ chain = NoChain
    /\ agent = NoAgent
    /\ input = Input("complete", FALSE, <<>>, Question)
    /\ script = <<<<Chunk("Alice", <<>>)>>>>
    /\ pc = [c \in Calls |-> "idle"]
    /\ argument = [c \in Calls |-> input.context]
    /\ events = [c \in Calls |-> <<>>]
    /\ context = [c \in Calls |-> <<>>]
    /\ calls = [c \in Calls |-> <<>>]
    /\ chunks = [c \in Calls |-> <<>>]
    /\ tool_calls = [c \in Calls |-> <<>>]
    /\ yielded = [c \in Calls |-> <<>>]
    /\ pending = [c \in Calls |-> <<>>]
    /\ tool_messages = [c \in Calls |-> <<>>]
    /\ executed = [c \in Calls |-> <<>>]
    /\ returned = [c \in Calls |-> <<>>]
    /\ response = [c \in Calls |-> IF IsStream(c) THEN <<>> ELSE None]
    /\ error = [c \in Calls |-> None]

\* what no builder method touches
conversation == <<input, script, pc, argument, events, context, calls, chunks,
                  tool_calls, yielded, pending, tool_messages, executed,
                  returned, response, error>>

WithModel ==
    /\ built = ""
    /\ \E model \in BuilderModels :
          /\ builder' = with_model(builder, model)
          /\ chain' = Chain("with_model", model, builder, "self",
                          chain.set \cup {"model"})
    /\ UNCHANGED <<built, agent, conversation>>

WithInstructions ==
    /\ built = ""
    /\ \E instructions \in BuilderInstructions :
          /\ builder' = with_instructions(builder, instructions)
          /\ chain' = Chain("with_instructions", instructions, builder, "self",
                          chain.set \cup {"instructions"})
    /\ UNCHANGED <<built, agent, conversation>>

WithTools ==
    /\ built = ""
    /\ \E tools \in BuilderTools :
          /\ builder' = with_tools(builder, tools)
          /\ chain' = Chain("with_tools", tools, builder, "self",
                          chain.set \cup {"tools"})
    /\ UNCHANGED <<built, agent, conversation>>

WithResponseFormat ==
    /\ built = ""
    /\ \E rf \in BuilderFormats :
          /\ builder' = with_response_format(builder, rf)
          /\ chain' = Chain("with_response_format", rf, builder, "self",
                          chain.set \cup {"response_format"})
    /\ UNCHANGED <<built, agent, conversation>>

WithPromptTemplate ==
    /\ built = ""
    /\ \E template \in BuilderTemplates :
          /\ builder' = with_prompt_template(builder, template)
          /\ chain' = Chain("with_prompt_template", template, builder, "self",
                          chain.set \cup {"prompt_template"})
    /\ UNCHANGED <<built, agent, conversation>>

WithParams ==
    /\ built = ""
    /\ \E params \in BuilderParams :
          /\ builder' = with_params(builder, params)
          /\ chain' = Chain("with_params", params, builder, "self",
                          chain.set \cup {"params"})
    /\ UNCHANGED <<built, agent, conversation>>

\* build(): the assert, then the Agent's construction
Build ==
    /\ built = ""
    /\ IF build_assert(builder)
       THEN /\ agent' = build(builder)
            /\ built' = "Agent"
       ELSE /\ built' = "AssertionError"
            /\ UNCHANGED agent
    /\ UNCHANGED <<builder, chain, conversation>>

NextBuilder ==
    \/ WithModel
    \/ WithInstructions
    \/ WithTools
    \/ WithResponseFormat
    \/ WithPromptTemplate
    \/ WithParams
    \/ Build

SpecBuilder == InitBuilder /\ [][NextBuilder]_vars

(***************************************************************************)
(* Calls on one Agent that overlap: a non-streaming call in a thread of    *)
(* its own and two streams the caller pulls from in turn, their steps      *)
(* taken in any order.                                                     *)
(***************************************************************************)
ConcCalls == {"sync", "stream", "stream2"}

ConcInputs ==
    { Input("mixed", TRUE, PriorContext, Question),
      Input("complete", FALSE, <<>>, Question),
      Input("complete_with_context", FALSE, <<>>, None) }

ConcScripts ==
    { << Styled(<<CallKind("get_user_name", ArgsValid),
                  CallKind("count_users", ArgsEmpty)>>, "interleaved"),
         <<Chunk("Al", <<>>), Chunk("ice", <<>>)>> >>,
      << Styled(<<CallKind("fail_tool", ArgsValid)>>, "text_first"),
         Styled(<<CallKind("get_user_name", ArgsOther)>>, "seq"),
         <<Chunk("Unknown", <<>>)>> >>,
      << Styled(<<CallKind("get_user_name", ArgsValid),
                  CallKind("get_weather", ArgsValid)>>, "seq"),
         <<Chunk("Alice", <<>>)>> >>,
      << Styled(<<CallKind("get_user_name", ArgsValid)>>, "text_last"),
         <<Chunk("Alice", <<>>)>> >> }

InitConc ==
    /\ builder = ToolBuilder /\ built = "Agent" /\ chain = NoChain
    /\ agent = build(builder)
    /\ input \in ConcInputs
    /\ script \in ConcScripts
    /\ pc = [c \in ConcCalls |-> "idle"]
    /\ argument = [c \in ConcCalls |-> input.context]
    /\ events = [c \in ConcCalls |-> <<>>]
    /\ context = [c \in ConcCalls |-> <<>>]
    /\ calls = [c \in ConcCalls |-> <<>>]
    /\ chunks = [c \in ConcCalls |-> <<>>]
    /\ tool_calls = [c \in ConcCalls |-> <<>>]
    /\ yielded = [c \in ConcCalls |-> <<>>]
    /\ pending = [c \in ConcCalls |-> <<>>]
    /\ tool_messages = [c \in ConcCalls |-> <<>>]
    /\ executed = [c \in ConcCalls |-> <<>>]
    /\ returned = [c \in ConcCalls |-> <<>>]
    /\ response = [c \in ConcCalls |-> IF IsStream(c) THEN <<>> ELSE None]
    /\ error = [c \in ConcCalls |-> None]

NextConc ==
    \E c \in ConcCalls :
        \/ CallComplete(c)
        \/ CallCompleteWithContext(c)
        \/ CallTool(c)
        \/ NextRound(c)
        \/ StreamChunk(c)
        \/ StreamEnd(c)

SpecConc == InitConc /\ [][NextConc]_vars

(***************************************************************************)
(* Agents whose tool list holds several functions of one name: three       *)
(* functions called get_user_name with the bodies of get_user_name,        *)
(* fail_tool and count_users, besides count_users itself.                  *)
(***************************************************************************)
MaxTools == 3

DupTools ==
    { get_user_name, Tool("get_user_name", "fail_tool"),
      Tool("get_user_name", "count_users"), count_users }

RECURSIVE ToolLists(_)
ToolLists(n) ==
    IF n = 0
    THEN { <<>> }
    ELSE LET shorter == ToolLists(n - 1)
         IN  shorter \cup { Append(ts, t) : ts \in shorter, t \in DupTools }

\* the tool lists in which a name occurs more than once
DupToolLists ==
    { ts \in ToolLists(MaxTools) :
        \E i, j \in 1..Len(ts) : i < j /\ ts[i].name = ts[j].name }

DupBuilders == { with_tools(with_model(AgentBuilder, Model), ts) : ts \in DupToolLists }

DupInputs ==
    { Input("complete", FALSE, <<>>, Question),
      Input("complete_with_context", TRUE, PriorContext, None) }

DupScripts ==
    { <<Styled(ks, "seq"), <<Chunk("Alice", <<>>)>>>> :
        ks \in { <<CallKind("get_user_name", ArgsValid)>>,
                 <<CallKind("get_user_name", ArgsEmpty)>>,
                 <<CallKind("count_users", ArgsEmpty),
                   CallKind("get_user_name", ArgsOther)>> } }

InitDup ==
    /\ builder \in DupBuilders /\ built = "Agent" /\ chain = NoChain
    /\ agent = build(builder)
    /\ input \in DupInputs
    /\ script \in DupScripts
    /\ pc = [c \in Calls |-> "idle"]
    /\ argument = [c \in Calls |-> input.context]
    /\ events = [c \in Calls |-> <<>>]
    /\ context = [c \in Calls |-> <<>>]
    /\ calls = [c \in Calls |-> <<>>]
    /\ chunks = [c \in Calls |-> <<>>]
    /\ tool_calls = [c \in Calls |-> <<>>]
    /\ yielded = [c \in Calls |-> <<>>]
    /\ pending = [c \in Calls |-> <<>>]
    /\ tool_messages = [c \in Calls |-> <<>>]
    /\ executed = [c \in Calls |-> <<>>]
    /\ returned = [c \in Calls |-> <<>>]
    /\ response = [c \in Calls |-> IF IsStream(c) THEN <<>> ELSE None]
    /\ error = [c \in Calls |-> None]

SpecDup == InitDup /\ [][Next]_vars

(***************************************************************************)
(* The tool loop under a schedule that keeps going: the provider answers   *)
(* every call, a tool function returns or raises, and the caller drains    *)
(* the generator of a streaming call.  The code has no other way to stop   *)
(* between two steps of a call (agent.py 223-237 is a plain recursion).    *)
(***************************************************************************)
\* first rounds with one or two tool calls that run, fail inside the tool,
\* cannot be deserialized or name no registered tool, streamed with and
\* without text around the tool-call data
LiveFirstRounds ==
    { Styled(ks, "seq") :
          ks \in { <<CallKind("get_user_name", ArgsValid)>>,
                   <<CallKind("fail_tool", ArgsValid),
                     CallKind("count_users", ArgsEmpty)>>,
                   <<CallKind("get_user_name", ArgsCut)>>,
                   <<CallKind("get_user_name", ArgsValid),
                     CallKind("get_weather", ArgsValid)>> } }
    \cup { Styled(<<CallKind("get_user_name", ArgsValid)>>, st) :
              st \in {"text_first", "text_last", "interleaved"} }

LiveScripts ==
    { <<f>> : f \in FinalRounds }
    \cup { (<<first>> \o later) \o <<f>> :
             first \in LiveFirstRounds, later \in LaterSeqs(MaxToolRounds - 1),
             f \in FinalRounds }

LiveInputs ==
    { Input("complete", FALSE, <<>>, Question),
      Input("complete_with_context", TRUE, PriorContext, None) }

InitLive ==
    /\ builder = ToolBuilder /\ built = "Agent" /\ chain = NoChain
    /\ agent \in Agents
    /\ input \in LiveInputs
    /\ script \in LiveScripts
    /\ pc = [c \in Calls |-> "idle"]
    /\ argument = [c \in Calls |-> input.context]
    /\ events = [c \in Calls |-> <<>>]
    /\ context = [c \in Calls |-> <<>>]
    /\ calls = [c \in Calls |-> <<>>]
    /\ chunks = [c \in Calls |-> <<>>]
    /\ tool_calls = [c \in Calls |-> <<>>]
    /\ yielded = [c \in Calls |-> <<>>]
    /\ pending = [c \in Calls |-> <<>>]
    /\ tool_messages = [c \in Calls |-> <<>>]
    /\ executed = [c \in Calls |-> <<>>]
    /\ returned = [c \in Calls |-> <<>>]
    /\ response = [c \in Calls |-> IF IsStream(c) THEN <<>> ELSE None]
    /\ error = [c \in Calls |-> None]

SpecLive == InitLive /\ [][Next]_vars /\ WF_vars(Next)

(***************************************************************************)
(* The caller of a streaming call.  A generator runs only inside the       *)
(* caller's next(): between two yields it takes chunks, executes tools and *)
(* calls the provider without the caller's doing.  The caller can abandon  *)
(* the generator (close it, or drop it) only where it is suspended: before *)
(* the first next(), or at a yield.  _stream_messages yields the chunks    *)
(* without tool-call data; in complete(), _stream_content passes on those  *)
(* whose content is not None.                                              *)
(***************************************************************************)
\* the chunk the stream took last was handed to the caller
at_yield(c) ==
    LET r == Len(calls[c])
        taken == Len(provider_round(r)) - Len(chunks[c])
    IN  IF taken = 0
        THEN r = 1
        ELSE LET last == provider_round(r)[taken]
             IN  /\ last.tool_calls = <<>>
                 /\ api(c) = "complete" => last.content # None

\* generator.close(): GeneratorExit is raised at the yield, no handler, no
\* finally: the frames of _stream_messages end there
Abandon(c) ==
    /\ IsStream(c)
    /\ pc[c] = "stream"
    /\ at_yield(c)
    /\ pc' = [pc EXCEPT ![c] = "abandoned"]
    /\ UNCHANGED <<builder, built, chain, agent, input, script, context, calls,
                   chunks, tool_calls, yielded, pending, tool_messages,
                   executed, returned, response, error, argument, events>>

NextPull ==
    \E c \in Calls :
        \/ Complete(c)
        \/ CompleteWithContext(c)
        \/ CallTool(c)
        \/ NextRound(c)
        \/ StreamChunk(c)
        \/ StreamEnd(c)
        \/ Abandon(c)

SpecPull == InitLive /\ [][NextPull]_vars

(***************************************************************************)
(* What the claims speak of, read off the script and the caller's input.   *)
(***************************************************************************)
\* the context the call starts from
InputContext == IF input.given THEN input.context ELSE default_context(agent)

\* the number of tool calls of script round i
NumCalls(i) == Len(round_tool_calls(script[i]))

\* the script's first round without tool calls: the round that ends the loop
LastRound == CHOOSE i \in 1..Len(script) :
                 /\ NumCalls(i) = 0
                 /\ \A h \in 1..(i - 1) : NumCalls(h) > 0

\* where round i's assistant message stands in the transcript of a call
\* that began with `base` messages
RECURSIVE Offset(_, _)
Offset(base, i) ==
    IF i = 1 THEN base + 1 ELSE Offset(base, i - 1) + 1 + NumCalls(i - 1)

Roles(ctx) == [i \in 1..Len(ctx) |-> ctx[i].role]

\* C1: a non-streaming complete_with_context without a prompt returns the
\* input context followed, round by round, by the round's assistant message
\* and one tool-role message per tool call of it, and ends with the final
\* assistant message.
C1_Transcript ==
    (pc["sync"] = "done" /\ input.api = "complete_with_context"
        /\ input.prompt = None) =>
        LET base == Len(InputContext)
            out == returned["sync"]
        IN  /\ Len(out) = Offset(base, LastRound)
            /\ SubSeq(out, 1, base) = InputContext
            /\ \A i \in 1..LastRound :
                  /\ out[Offset(base, i)] = round_message(script[i])
                  /\ \A j \in 1..NumCalls(i) :
                        out[Offset(base, i) + j].role = "tool"
            /\ out[Len(out)].tool_calls = <<>>
            /\ (LastRound = 1 => Len(out) = base + 1)

\* C1 witness: the default context, one round of two tool calls, then the
\* final message
C1_Witness ==
    /\ pc["sync"] = "done"
    /\ input.api = "complete_with_context" /\ ~input.given /\ input.prompt = None
    /\ LastRound = 2 /\ NumCalls(1) = 2
    /\ Roles(returned["sync"]) =
          <<"system", "assistant", "tool", "tool", "assistant">>

\* What executing a tool call of the scripts comes to, told from the tools'
\* own definitions (tests/test_agent.py get_user_name) and not from the
\* Agent's code: the returned text of a call that succeeds, and the
\* messages of the exceptions a call can raise.
Succeeds(tc) ==
    \/ tc.name = "get_user_name"
          /\ tc.arguments \in {"{\"user_id\": 123}", "{\"user_id\": 7}"}
    \/ tc.name = "count_users" /\ tc.arguments = "{}"

SuccessText(tc) ==
    IF tc.name = "count_users"
    THEN "2"
    ELSE IF tc.arguments = "{\"user_id\": 123}" THEN "Alice" ELSE "Unknown User"

\* the tool's body raises
BodyRaises(tc) ==
    tc.name = "fail_tool" /\ tc.arguments \in {"{\"user_id\": 123}", "{\"user_id\": 7}"}

\* the call of the tool raises before its body: the payload is a JSON
\* document that is no mapping, or a mapping the signature does not take
BindingRaises(tc) ==
    \/ tc.name \in {"get_user_name", "fail_tool", "count_users"}
          /\ tc.arguments = "[123]"
    \/ tc.name \in {"get_user_name", "fail_tool"} /\ tc.arguments = "{}"
    \/ tc.name = "count_users"
          /\ tc.arguments \in {"{\"user_id\": 123}", "{\"user_id\": 7}"}

ExceptionTexts ==
    { "no such user",
      "argument after ** must be a mapping, not list",
      "get_user_name() missing 1 required positional argument: 'user_id'",
      "fail_tool() missing 1 required positional argument: 'user_id'",
      "count_users() got an unexpected keyword argument 'user_id'" }

\* content.startswith("Error executing tool:")
IsErrorContent(content) ==
    \E e \in ExceptionTexts : content = ("Error executing tool:" \o " ") \o e

\* the content the tool message of tool call tc is to carry
ResultOf(tc, content) ==
    /\ Succeeds(tc) => content = SuccessText(tc)
    /\ (BodyRaises(tc) \/ BindingRaises(tc)) => IsErrorContent(content)
    /\ Succeeds(tc) \/ BodyRaises(tc) \/ BindingRaises(tc)

\* the assistant message that most recently precedes position q
LastAssistant(ctx, q) ==
    CHOOSE p \in 1..(q - 1) :
        /\ ctx[p].role = "assistant"
        /\ \A h \in (p + 1)..(q - 1) : ctx[h].role # "assistant"

\* C2: in a returned context an assistant message with tool calls c_1..c_n
\* is followed by exactly n tool-role messages, the j-th carrying c_j's id
\* and the result of c_j; a tool-role message's id names exactly one tool
\* call of the assistant message that most recently precedes it.
C2_ToolMessagesInOrder ==
    pc["sync"] = "done" =>
        LET out == returned["sync"]
        IN  /\ \A p \in 1..Len(out) :
                  out[p].tool_calls # <<>> =>
                      LET tcs == out[p].tool_calls
                          n == Len(tcs)
                      IN  /\ out[p].role = "assistant"
                          /\ p + n < Len(out)
                          /\ \A j \in 1..n :
                                /\ out[p + j].role = "tool"
                                /\ out[p + j].tool_call_id = tcs[j].id
                                /\ ResultOf(tcs[j], out[p + j].content)
                          /\ out[p + n + 1].role # "tool"
            /\ \A q \in 1..Len(out) :
                  out[q].role = "tool" =>
                      /\ \E p \in 1..(q - 1) : out[p].role = "assistant"
                      /\ LET tcs == out[LastAssistant(out, q)].tool_calls
                         IN  Cardinality({ j \in 1..Len(tcs) :
                                              tcs[j].id = out[q].tool_call_id }) = 1

\* C2 witness: a returned context with a round of two tool calls, one that
\* raised and one that returned, and a later round that uses an id again
C2_Witness ==
    /\ pc["sync"] = "done"
    /\ LastRound = 3 /\ NumCalls(1) = 2
    /\ \E p \in 1..Len(returned["sync"]) :
          /\ Len(returned["sync"][p].tool_calls) = 2
          /\ IsErrorContent(returned["sync"][p + 1].content)
          /\ returned["sync"][p + 2].content = "Unknown User"
          /\ returned["sync"][p + 2].tool_call_id = "call_2"
    /\ Cardinality({ q \in 1..Len(returned["sync"]) :
                        returned["sync"][q].tool_call_id = "call_1" }) = 2

\* the messages a finished call has put together: the returned context
\* without streaming; with streaming, the context of the last provider call
Transcript(c) == IF IsStream(c) THEN context[c] ELSE returned[c]

\* C3: a tool that raises is not propagated to the caller: its tool message
\* starts with "Error executing tool:", the other tool calls of the round
\* are still resolved, and the next provider round is issued with the
\* round's tool messages.
C3_ToolErrorIsolated ==
    \A c \in Calls :
        /\ \A j \in 1..Len(tool_messages[c]) :
              BodyRaises(pending[c][j]) =>
                  IsErrorContent(tool_messages[c][j].content)
        /\ error[c] \in {None, "KeyError", "JSONDecodeError", "AssertionError",
                         "IndexError"}
        /\ (pc[c] = "error" /\ error[c] \in {"KeyError", "JSONDecodeError"}) =>
              LET tc == pending[c][Len(tool_messages[c]) + 1]
              IN  ~(Succeeds(tc) \/ BodyRaises(tc) \/ BindingRaises(tc))
        /\ pc[c] = "done" =>
              LET t == Transcript(c)
              IN  \A p \in 1..Len(t) :
                      (\E j \in 1..Len(t[p].tool_calls) :
                            BodyRaises(t[p].tool_calls[j])) =>
                          LET n == Len(t[p].tool_calls)
                          IN  /\ p + n <= Len(t)
                              /\ \A j \in 1..n :
                                    /\ t[p + j].role = "tool"
                                    /\ t[p + j].tool_call_id = t[p].tool_calls[j].id
                              /\ \E r \in 1..Len(calls[c]) :
                                    /\ Len(calls[c][r]) = p + n
                                    /\ \A j \in 1..n :
                                          calls[c][r][p + j] = t[p + j]

\* C3 witness: a streamed call that ended normally after a round whose first
\* tool raised and whose second tool was then run
C3_Witness ==
    /\ pc["stream"] = "done"
    /\ \E p \in 1..Len(context["stream"]) :
          LET m == context["stream"][p]
          IN  /\ Len(m.tool_calls) = 2
              /\ BodyRaises(m.tool_calls[1])
              /\ context["stream"][p + 1].content =
                    "Error executing tool: no such user"
              /\ context["stream"][p + 2].content = "Unknown User"
    /\ Len(executed["stream"]) >= 2

\* the payload of tc does not deserialize into a mapping
Malformed(tc) ==
    tc.arguments \notin {"{\"user_id\": 123}", "{\"user_id\": 7}", "{}"}

\* C4 (as claimed): a payload that fails to deserialize into a mapping is a
\* tool execution failure: its tool message carries "Error executing
\* tool: ..." and no error reaches the caller.
C4_MalformedArgumentsSurfaced ==
    \A c \in Calls :
        /\ error[c] # "JSONDecodeError"
        /\ \A j \in 1..Len(tool_messages[c]) :
              Malformed(pending[c][j]) =>
                  IsErrorContent(tool_messages[c][j].content)

Registered(name) == \E i \in 1..Len(agent.tools) : agent.tools[i].name = name

\* the first tool call of `tcs` that names no registered tool, or 0
FirstUnregistered(tcs) ==
    IF \A j \in 1..Len(tcs) : Registered(tcs[j].name)
    THEN 0
    ELSE CHOOSE j \in 1..Len(tcs) :
            /\ ~Registered(tcs[j].name)
            /\ \A h \in 1..(j - 1) : Registered(tcs[h].name)

\* C5: an assistant message that names an unregistered tool ends the call
\* with an error: no tool message is built for that request, nothing
\* follows the assistant message in the context, no further provider round
\* is issued and nothing is returned.
C5_UnregisteredToolFails ==
    \A c \in Calls :
        \A p \in (Len(InputContext) + 1)..Len(context[c]) :
            LET j == FirstUnregistered(context[c][p].tool_calls)
            IN  j > 0 =>
                    /\ p = Len(context[c])
                    /\ pc[c] \in {"tools", "error"}
                    /\ pending[c] = context[c][p].tool_calls
                    /\ Len(tool_messages[c]) < j
                    /\ returned[c] = <<>>
                    /\ ~IsStream(c) => response[c] = None
                    /\ pc[c] = "error" =>
                          error[c] = IF Len(tool_messages[c]) = j - 1
                                     THEN "KeyError"
                                     ELSE "JSONDecodeError"
                    /\ Len(calls[c]) =
                          Cardinality({ q \in (Len(InputContext) + 1)..p :
                                           context[c][q].role = "assistant" })

\* C5 witness: the second tool call of a round named an unregistered tool;
\* the first was run, and the call ended with the KeyError
C5_Witness ==
    /\ pc["sync"] = "error" /\ error["sync"] = "KeyError"
    /\ FirstUnregistered(pending["sync"]) = 2
    /\ Len(tool_messages["sync"]) = 1
    /\ Len(executed["sync"]) = 1
    /\ Len(calls["sync"]) = 1

\* both complete(prompt) calls, stream=False and stream=True, have ended
\* normally
BothComplete ==
    input.api = "complete" /\ pc["sync"] = "done" /\ pc["stream"] = "done"

\* C6 (as claimed): over any number of tool-call rounds, the text chunks of
\* complete(prompt, stream=True), joined, are the string that
\* complete(prompt, stream=False) returns.
C6_StreamedTextIsResponse ==
    BothComplete => join(response["stream"]) = response["sync"]

\* no tool-call round of the script carries text, and the last message has
\* a content string
ToolRoundsSilent ==
    /\ \A i \in 1..(LastRound - 1) : round_text(script[i]) = ""
    /\ round_content(script[LastRound]) # None

\* C6 (amended): the same, for provider scripts whose tool-call rounds carry
\* no text content and whose last message has a content string.
C6_StreamedTextIsFinalText ==
    (BothComplete /\ ToolRoundsSilent) =>
        join(response["stream"]) = response["sync"]

\* C6 witness: two tool-call rounds without text, then a last round
\* streamed in several chunks
C6_Witness ==
    /\ BothComplete /\ ToolRoundsSilent
    /\ LastRound = 3
    /\ Len(response["stream"]) = 3
    /\ response["sync"] = "The user is Alice."

\* the messages a call added to the context it was given
Added(ctx) == SubSeq(ctx, Len(InputContext) + 1, Len(ctx))

\* what a caller that drains the stream can put together: the fragments
\* carry no turn boundary and no role, so they fold into one assistant
\* message per run of fragments, with the text and the tool calls they hold
Fold(ds) ==
    IF ds = <<>>
    THEN <<>>
    ELSE <<Message("object", "assistant", round_content(ds),
                   round_tool_calls(ds), None)>>

\* C7 (as claimed): the fragments of complete_with_context(stream=True),
\* drained and reassembled, give the messages the non-streaming call added:
\* every assistant message with its tool calls, every tool-role message.
C7_StreamReassemblesTranscript ==
    (input.api = "complete_with_context" /\ pc["sync"] = "done"
        /\ pc["stream"] = "done") =>
        LET new == Added(returned["sync"])
            got == Fold(yielded["stream"])
        IN  /\ Roles(got) = Roles(new)
            /\ \A q \in 1..Len(new) :
                  /\ got[q].tool_calls = new[q].tool_calls
                  /\ got[q].tool_call_id = new[q].tool_call_id

\* the first chunk of turn cs that carries text after a chunk with
\* tool-call data, or 0
ContentAfterToolCall(cs) ==
    LET late == { q \in 1..Len(cs) :
                     /\ Truthy(cs[q].content)
                     /\ \E h \in 1..(q - 1) : cs[h].tool_calls # <<>> }
    IN  IF late = {} THEN 0
        ELSE CHOOSE q \in late : \A h \in late : q <= h

\* the number of chunks of the current turn the stream has taken
Taken(c) == Len(provider_round(Len(calls[c]))) - Len(chunks[c])

\* C8: in a streamed turn, text that arrives after tool-call data fails the
\* stream: the chunk is not taken (so not yielded), no tool call of the turn
\* is run and no further provider round is issued; the check is per turn,
\* an AssertionError comes from nothing else.
C8_ContentAfterToolCallFails ==
    LET c == "stream"
        r == Len(calls[c])
    IN  r >= 1 =>
            LET q == ContentAfterToolCall(provider_round(r))
            IN  /\ q > 0 =>
                      /\ Taken(c) < q
                      /\ pc[c] \in {"stream", "error"}
                      /\ pending[c] = <<>> /\ tool_messages[c] = <<>>
                      /\ Len(executed[c]) = 0 \/ r > 1
                      /\ (pc[c] = "error" /\ Taken(c) = q - 1) =>
                            error[c] = "AssertionError"
                /\ \A i \in 1..(r - 1) : ContentAfterToolCall(script[i]) = 0
                /\ error[c] = "AssertionError" => (q > 0 /\ Taken(c) = q - 1)

\* C8 witness: the stream failed on a text chunk that followed tool-call data
C8_Witness ==
    /\ pc["stream"] = "error" /\ error["stream"] = "AssertionError"
    /\ tool_calls["stream"] # <<>>
    /\ Head(chunks["stream"]) = Chunk(Preamble, <<>>)
    /\ calls["stream"] # <<>> /\ Len(calls["stream"]) = 1

\* every delta of the deltas ds opens the next entry or names an entry
\* that exists
RECURSIVE WellFormed(_, _)
WellFormed(ds, count) ==
    \/ ds = <<>>
    \/ /\ Head(ds).index <= count
       /\ WellFormed(Tail(ds), IF Head(ds).index = count THEN count + 1 ELSE count)

\* C9: the synthetic assistant message of a streamed turn has one tool call
\* per index, in index order, with the id and name of the delta that opened
\* the index and the argument chunks of that index joined in arrival order;
\* a turn whose deltas are well-formed is not refused for its indexes.
C9_ToolCallsMerged ==
    LET c == "stream"
        ds == flat_deltas(provider_round(Len(calls[c])))
        idx == { ds[h].index : h \in 1..Len(ds) }
        First(k) == ds[CHOOSE h \in 1..Len(ds) :
                          /\ ds[h].index = k
                          /\ \A g \in 1..(h - 1) : ds[g].index # k]
    IN  /\ (pc[c] = "tools" /\ calls[c] # <<>>) =>
              /\ idx = 0..(Len(pending[c]) - 1)
              /\ \A k \in idx :
                    pending[c][k + 1] =
                        ToolCall(First(k).id, First(k).name, arguments_of(ds, k))
              /\ context[c][Len(context[c])] =
                    Message("object", "assistant", None, pending[c], None)
        /\ (error[c] = "IndexError" /\ calls[c] # <<>>) => ~WellFormed(ds, 0)

\* C9 witness: two tool calls opened in one chunk and continued in the
\* opposite order, merged into their own entries
C9_Witness ==
    /\ pc["stream"] = "tools"
    /\ script[1] = << Chunk(None, <<FragOpen0, FragOpen1>>),
                      Chunk(None, <<FragCont1>>), Chunk(None, <<FragCont0>>) >>
    /\ pending["stream"] =
          << ToolCall("call_1", "get_user_name", "{\"user_id\": 123}"),
             ToolCall("call_2", "count_users", "{}") >>

\* C10 (as claimed): with a non-empty prompt the returned context is the
\* input context, then the user message, then the assistant's response.
C10_UserMessageReturned ==
    (pc["sync"] = "done" /\ input.api = "complete_with_context"
        /\ Truthy(input.prompt)) =>
        LET base == Len(InputContext)
            out == returned["sync"]
        IN  /\ SubSeq(out, 1, base) = InputContext
            /\ Len(out) >= base + 2
            /\ out[base + 1].role = "user"
            /\ out[base + 1].content = input.prompt
            /\ out[base + 2].role = "assistant"

\* C11: complete_with_context never mutates the context it is given: in
\* every state of a call, ended or not, with or without error, the list the
\* caller passed holds the messages it held before; the context a
\* non-streaming call returns is longer than the one passed and starts with
\* its messages, unchanged and in order.
C11_ContextNotMutated ==
    \A c \in Calls :
        (api(c) = "complete_with_context" /\ input.given) =>
            /\ argument[c] = input.context
            /\ (~IsStream(c) /\ pc[c] = "done") =>
                  /\ Len(returned[c]) > Len(input.context)
                  /\ SubSeq(returned[c], 1, Len(input.context)) = input.context

\* C11 witness: a call that was given the history of an earlier turn and a
\* prompt has returned after two tool-call rounds
C11_Witness ==
    /\ pc["sync"] = "done" /\ api("sync") = "complete_with_context"
    /\ input.given /\ input.context = PriorContext /\ Truthy(input.prompt)
    /\ LastRound = 3
    /\ Len(returned["sync"]) > Len(PriorContext) + 4
    /\ argument["sync"] = PriorContext

(***************************************************************************)
(* What a configuration and a prompt are to come to, told from the         *)
(* builder's attributes and the caller's mapping.                          *)
(***************************************************************************)
\* tools, a response format, a template count as configured when they are
\* not empty
ToolsConfigured    == builder.tools # <<>>
FormatConfigured   == builder.response_format \notin {None, EmptySchema}
TemplateConfigured == builder.prompt_template \notin {None, ""}

\* the instructions an Agent built from the builder is to have
DerivedInstructions ==
    (IF builder.instructions = None THEN DefaultPersona ELSE builder.instructions)
    \o (IF ToolsConfigured THEN " " \o ToolSentence ELSE "")
    \o (IF FormatConfigured
        THEN " " \o (IF ToolsConfigured THEN JsonAfterTools ELSE JsonAlways)
        ELSE "")

\* the placeholders a template names
Placeholders(template) ==
    CASE template = SummarizeTemplate -> {"text"}
      [] template = BareTemplate      -> {"text"}
      [] template = StatisticTemplate -> {"statistic", "numbers"}
      [] OTHER                        -> {}

ValueOf(items, key) == (CHOOSE kv \in items : kv[1] = key)[2]

\* the mapping supplies every placeholder of the template
Supplies(items, template) ==
    \A key \in Placeholders(template) : \E kv \in items : kv[1] = key

\* the text a mapping renders to
Substituted(template, items) ==
    CASE template = SummarizeTemplate -> "Summarize: " \o ValueOf(items, "text")
      [] template = BareTemplate      -> ValueOf(items, "text")
      [] template = StatisticTemplate ->
            ((("What is the " \o ValueOf(items, "statistic"))
                \o " of these numbers: ") \o ValueOf(items, "numbers")) \o "?"
      [] OTHER                        -> template

\* the rendered prompt of the caller's input: the text itself, or the
\* mapping substituted into the template
RenderedPrompt ==
    IF input.is_dict
    THEN Substituted(builder.prompt_template, input.items)
    ELSE input.prompt

\* C12: the first provider call of every complete(prompt, stream) carries
\* exactly the system message with the derived instructions, followed by
\* one user message with the rendered prompt when that is not empty, and
\* nothing else, whatever calls were made on the Agent before.
C12_FreshContext ==
    \A c \in Calls :
        (api(c) = "complete" /\ calls[c] # <<>>) =>
            calls[c][1] =
                <<Message("dict", "system", DerivedInstructions, <<>>, None)>>
                \o (IF Truthy(RenderedPrompt)
                    THEN <<Message("dict", "user", RenderedPrompt, <<>>, None)>>
                    ELSE <<>>)

\* C12 witness: complete(prompt, stream=True) was called on an Agent on
\* which complete_with_context had returned a longer conversation, and its
\* first provider call carried the system message and the user message only
C12_Witness ==
    /\ input.api = "mixed" /\ ~input.is_dict
    /\ pc["sync"] = "done" /\ Len(returned["sync"]) >= 6
    /\ ToolsConfigured /\ FormatConfigured
    /\ pc["stream"] # "idle"
    /\ Len(calls["stream"][1]) = 2
    /\ calls["stream"][1][2].content = Question

\* C13: a mapping prompt is rendered by substituting its values into the
\* template's placeholders, keys the template does not name being ignored
\* ("Summarize: {text}" with text hello gives "Summarize: hello"), and the
\* rendering is the user message of the first provider call; without a
\* template, or with a placeholder the mapping lacks, the call fails with
\* an error before any provider call.
C13_PromptRendering ==
    \A c \in Calls :
        (input.is_dict /\ pc[c] # "idle") =>
            IF ~TemplateConfigured \/ ~Supplies(input.items, builder.prompt_template)
            THEN /\ pc[c] = "error"
                 /\ error[c] = IF TemplateConfigured THEN "KeyError" ELSE "ValueError"
                 /\ calls[c] = <<>> /\ events[c] = <<>>
                 /\ returned[c] = <<>>
            ELSE /\ calls[c] # <<>>
                 /\ LET first == calls[c][1]
                        last == first[Len(first)]
                    IN  /\ RenderedPrompt # "" =>
                              last = Message("dict", "user", RenderedPrompt, <<>>, None)
                        /\ (/\ builder.prompt_template = SummarizeTemplate
                            /\ <<"text", "hello">> \in input.items) =>
                              last.content = "Summarize: hello"
                        /\ RenderedPrompt = "" => last.role # "user"

\* C13 witness: a mapping that lacks one of the template's two placeholders
\* ended the call with a KeyError, and the provider was never called
C13_Witness ==
    /\ input.is_dict /\ builder.prompt_template = StatisticTemplate
    /\ input.items = {<<"statistic", "mean">>}
    /\ pc["sync"] = "error" /\ error["sync"] = "KeyError"
    /\ pc["stream"] = "error"
    /\ calls["sync"] = <<>> /\ calls["stream"] = <<>>

Fields ==
    {"model", "instructions", "tools", "response_format", "prompt_template",
     "params"}

\* the attribute a with_* method is named after
FieldOf(method) ==
    CASE method = "with_model"           -> "model"
      [] method = "with_instructions"    -> "instructions"
      [] method = "with_tools"           -> "tools"
      [] method = "with_response_format" -> "response_format"
      [] method = "with_prompt_template" -> "prompt_template"
      [] OTHER                           -> "params"

\* the last with_* call returned the builder it was called on, set its own
\* attribute to its argument and left the others as they were; an attribute
\* never set has its default
Chained ==
    /\ chain.method # None =>
          /\ chain.returned = "self"
          /\ builder[FieldOf(chain.method)] = chain.argument
          /\ \A f \in Fields \ {FieldOf(chain.method)} :
                builder[f] = chain.before[f]
    /\ \A f \in Fields \ chain.set : builder[f] = AgentBuilder[f]
    /\ AgentBuilder.tools = <<>> /\ AgentBuilder.params = {}
    /\ AgentBuilder.response_format = None /\ AgentBuilder.prompt_template = None

\* build() failed, with no Agent, exactly when with_model was never called
BuildNeedsModel ==
    /\ built # "" => ((built = "AssertionError") <=> ("model" \notin chain.set))
    /\ built # "Agent" => agent = NoAgent

\* C14 (as claimed): every with_* call returns the same builder and changes
\* only its own attribute; build() fails without a model; the Agent it
\* returns has, in every attribute, the value last set or the default.
C14_BuiltAsSet ==
    /\ Chained
    /\ BuildNeedsModel
    /\ built = "Agent" =>
          /\ \A f \in Fields \ {"instructions"} : agent[f] = builder[f]
          /\ agent.instructions =
                IF "instructions" \in chain.set
                THEN builder.instructions
                ELSE DefaultPersona

\* C14 (amended): the same, but the Agent's instructions are the string
\* derived from the instructions last set (or the default persona), the
\* tools and the response format; they are the value set itself only when
\* neither tools nor a response format is configured.
C14_BuiltAsSetDerived ==
    /\ Chained
    /\ BuildNeedsModel
    /\ built = "Agent" =>
          /\ \A f \in Fields \ {"instructions"} : agent[f] = builder[f]
          /\ agent.instructions = DerivedInstructions
          /\ (~ToolsConfigured /\ ~FormatConfigured) =>
                agent.instructions =
                    IF "instructions" \in chain.set
                    THEN builder.instructions
                    ELSE DefaultPersona

\* C14 witness: build() returned an Agent after instructions, tools and
\* other attributes were set, some of them twice
C14_Witness ==
    /\ built = "Agent"
    /\ {"model", "instructions", "tools", "params"} \subseteq chain.set
    /\ chain.method = "with_tools" /\ chain.before.tools # <<>>
    /\ agent.tools = <<get_user_name>>
    /\ agent.instructions # builder.instructions

\* C15: in every state, before and after any complete or
\* complete_with_context call, the Agent's instructions are the supplied
\* instructions (or the default persona sentence), then the tool-use
\* sentence iff tools are configured, then, iff a response format is
\* configured, the JSON sentence in its "finished with tool calls" wording
\* iff tools are configured too, joined by single spaces; with neither
\* tools nor response format they are the supplied text unchanged.
C15_InstructionsDerived ==
    /\ agent.instructions = DerivedInstructions
    /\ (~ToolsConfigured /\ ~FormatConfigured /\ builder.instructions # None) =>
          agent.instructions = builder.instructions
    /\ (builder.instructions = TestInstructions /\ ToolsConfigured
        /\ builder.response_format = User) =>
          agent.instructions =
              "You are a test assistant. Use tools when relevant or requested. When you are finished with tool calls, your final response must be in a JSON format."
    /\ (builder.instructions = None /\ ~ToolsConfigured
        /\ builder.response_format = JsonSchema) =>
          agent.instructions =
              "You are a helpful and concise assistant. You must output your response in a JSON format."

\* C15 witness: an Agent with tools and a response format, after a
\* complete_with_context call and a streamed complete call have both ended
C15_Witness ==
    /\ input.api = "mixed"
    /\ pc["sync"] = "done" /\ pc["stream"] = "done"
    /\ Len(calls["sync"]) = 2
    /\ builder.instructions = TestInstructions
    /\ ToolsConfigured /\ builder.response_format = User
    /\ agent.instructions = DerivedInstructions

\* the provider's last message, as the script has it
LastContent == round_content(script[LastRound])

\* the payloads whose shape matches User (name: str, age: int)
MatchesUser(content) == content \in {PayloadUser, PayloadExtra}

\* C16: what a non-streaming complete returns comes from the message that
\* ended the loop, the last of the returned context, an assistant message
\* without tool calls, and from no message before it: without a response
\* format its text content; with the type User an instance whose fields
\* are the payload's (name Jean-Luc, age 59), the call failing when the
\* payload's shape does not match; with a schema mapping the parsed payload
\* as it is.
C16_FinalResponse ==
    LET c == "sync"
        out == returned[c]
    IN  (api(c) = "complete" /\ out # <<>>) =>
            /\ out[Len(out)] = round_message(script[LastRound])
            /\ out[Len(out)].role = "assistant" /\ out[Len(out)].tool_calls = <<>>
            /\ ~FormatConfigured =>
                  pc[c] = "done" /\ response[c] = LastContent
            /\ builder.response_format = User =>
                  IF MatchesUser(LastContent)
                  THEN /\ pc[c] = "done"
                       /\ response[c] = [type |-> User, name |-> "Jean-Luc", age |-> "59"]
                  ELSE /\ pc[c] = "error"
                       /\ error[c] \in {"ValidationError", "TypeError"}
            /\ builder.response_format = JsonSchema =>
                  /\ pc[c] = "done"
                  /\ response[c].kind = (IF LastContent \in
                                              {PayloadUser, PayloadNoAge,
                                               PayloadBadAge, PayloadExtra}
                                         THEN "mapping" ELSE "None")
                  /\ LastContent = PayloadNoAge =>
                        response[c].items = {JsonItem("name", "str", "Jean-Luc")}
                  /\ LastContent = PayloadUser =>
                        response[c].items = {JsonItem("name", "str", "Jean-Luc"),
                                             JsonItem("age", "int", "59")}

\* C16 witness: after a tool-call round whose message carried a payload of
\* its own, complete returned the User built from the last message's payload
C16_Witness ==
    /\ api("sync") = "complete" /\ pc["sync"] = "done"
    /\ builder.response_format = User
    /\ script[1] = PayloadRound /\ LastRound = 2
    /\ Len(returned["sync"]) = 4
    /\ response["sync"].name = "Jean-Luc" /\ response["sync"].age = "59"

(***************************************************************************)
(* A call run on its own, from its entry to its end in one piece: the      *)
(* reference an overlapping call is held against.                          *)
(***************************************************************************)
Alone(sent, ctx, out, err) ==
    [calls |-> sent, context |-> ctx, yielded |-> out, error |-> err]

\* a round's tool calls resolved one after another: the tool messages, or
\* the error of the first call that cannot be resolved
RECURSIVE resolve_all(_, _)
resolve_all(tools, tcs) ==
    IF tcs = <<>>
    THEN [status |-> "ok", messages |-> <<>>]
    ELSE LET r == call_tool(tools, Head(tcs))
             rest == resolve_all(tools, Tail(tcs))
         IN  IF r.status # "ok"
             THEN [status |-> r.status, messages |-> <<>>]
             ELSE [status |-> rest.status, messages |-> <<r.message>> \o rest.messages]

\* a streamed turn drained on its own: the tool calls accumulated, the
\* deltas yielded, or the error that ended it
RECURSIVE drain(_, _, _)
drain(tcs, out, cs) ==
    IF cs = <<>>
    THEN [error |-> None, tcs |-> tcs, yielded |-> out]
    ELSE LET delta == Head(cs)
             m == merge_tool_calls(tcs, delta.tool_calls)
         IN  IF ~stream_assert(delta, tcs)
             THEN [error |-> "AssertionError", tcs |-> tcs, yielded |-> out]
             ELSE IF delta.tool_calls = <<>>
                  THEN drain(tcs, Append(out, delta), Tail(cs))
                  ELSE IF m.ok
                       THEN drain(m.tcs, out, Tail(cs))
                       ELSE [error |-> "IndexError", tcs |-> tcs, yielded |-> out]

\* provider call r of a call and all that follows it
RECURSIVE run_alone(_, _, _, _)
run_alone(stream, ctx, user_message, r) ==
    LET messages == completion_messages(ctx, user_message)
        turn == provider_round(r)
        d == drain(<<>>, <<>>, turn)
        message == IF stream THEN stream_message(d.tcs) ELSE round_message(turn)
        out == IF stream THEN d.yielded ELSE <<>>
        extended == handle_tool_calls(message, ctx)
        res == resolve_all(agent.tools, message.tool_calls)
        rest == run_alone(stream, recursion_context(extended, res.messages),
                          <<>>, r + 1)
    IN  IF stream /\ d.error # None
        THEN Alone(<<messages>>, ctx, out, d.error)
        ELSE IF message.tool_calls = <<>>
             THEN Alone(<<messages>>, IF stream THEN ctx ELSE extended, out, None)
             ELSE IF res.status # "ok"
                  THEN Alone(<<messages>>, extended, out, res.status)
                  ELSE Alone(<<messages>> \o rest.calls, rest.context,
                             out \o rest.yielded, rest.error)

\* call c of the caller's input, run alone
RunAlone(c) ==
    run_alone(IsStream(c),
              IF api(c) = "complete_with_context" /\ input.given
              THEN input.context
              ELSE default_context(agent),
              build_user_message(agent, prompt_of(input)), 1)

IsPrefix(s, t) == Len(s) <= Len(t) /\ SubSeq(t, 1, Len(s)) = s

\* C17: whatever the order in which the steps of the calls on one Agent
\* are taken, every call issues the provider message lists, yields the
\* fragments and ends with the transcript or the error it has when run
\* alone, and the Agent's configuration stays what build() made it.
C17_Reentrant ==
    /\ agent = build(ToolBuilder)
    /\ \A c \in DOMAIN pc :
          pc[c] # "idle" =>
              LET alone == RunAlone(c)
              IN  /\ IsPrefix(calls[c], alone.calls)
                  /\ IsPrefix(yielded[c], alone.yielded)
                  /\ Finished(c) =>
                        /\ calls[c] = alone.calls
                        /\ yielded[c] = alone.yielded
                        /\ context[c] = alone.context
                        /\ error[c] = alone.error
                        /\ (pc[c] = "done") = (alone.error = None)
                        /\ (pc[c] = "done" /\ ~IsStream(c)) =>
                              returned[c] = alone.context

\* C17 witness: two streams and a non-streaming call, all three in the
\* middle of the same tool-call round at once, one stream between two
\* fragments, the other between two tool executions
C17_Witness ==
    /\ pc["sync"] = "tools" /\ Len(tool_messages["sync"]) = 1
    /\ pc["stream"] = "stream" /\ Len(tool_calls["stream"]) = 2
    /\ chunks["stream"] # <<>>
    /\ pc["stream2"] = "tools" /\ Len(tool_messages["stream2"]) = 1
    /\ Len(pending["stream2"]) = 2

\* the provider calls and tool executions the script asks for, from round i
\* on: each round's provider call, then its tool calls in request order
RECURSIVE ScriptEvents(_)
ScriptEvents(i) ==
    IF i > LastRound
    THEN <<>>
    ELSE (<<Completion(i)>>
          \o [j \in 1..NumCalls(i) |->
                Execution(i, round_tool_calls(script[i])[j])])
         \o ScriptEvents(i + 1)

\* C18: in a call, the provider calls and the tool executions happen in
\* the order round 1's provider call, round 1's tool calls each once and in
\* request order, round 2's provider call, and so on: no provider call
\* between two tool executions of a round, none before the round's last
\* tool call has been executed, and no tool execution that the latest
\* assistant message did not request.
C18_RoundOrder ==
    \A c \in Calls :
        /\ IsPrefix(events[c], ScriptEvents(1))
        /\ pc[c] = "done" => events[c] = ScriptEvents(1)
        /\ Cardinality({k \in 1..Len(events[c]) :
                            events[c][k].kind = "completion"}) = Len(calls[c])
        /\ \A k \in 1..Len(events[c]) :
              events[c][k].kind = "execute" =>
                  LET asked == context[c][LastAssistant(context[c], Len(context[c]) + 1)]
                  IN  (events[c][k].round = Len(calls[c])) =>
                          \E j \in 1..Len(asked.tool_calls) :
                              asked.tool_calls[j] = events[c][k].tool_call

\* C18 witness: a streamed call that ended after two tool-call rounds, the
\* first with two tool calls
C18_Witness ==
    /\ pc["stream"] = "done" /\ LastRound = 3 /\ NumCalls(1) = 2
    /\ Len(events["stream"]) = 5 + NumCalls(2)
    /\ events["stream"][2].kind = "execute" /\ events["stream"][3].kind = "execute"
    /\ events["stream"][4] = Completion(2)

\* all the tools the script asks for are registered
AllRegistered ==
    \A i \in 1..(LastRound - 1) : \A j \in 1..NumCalls(i) :
        Registered(round_tool_calls(script[i])[j].name)

\* no payload of the script fails to deserialize
AllDeserialize ==
    \A i \in 1..(LastRound - 1) : \A j \in 1..NumCalls(i) :
        json_loads(round_tool_calls(script[i])[j].arguments).kind # "JSONDecodeError"

\* no streamed round carries text after tool-call data
NoContentAfterToolCall ==
    \A i \in 1..LastRound : ContentAfterToolCall(script[i]) = 0

\* a call that returned made exactly LastRound provider calls, the turn of
\* its last provider call carries no tool call, and the context a
\* non-streaming call returns ends with that turn's assistant message
ReturnedAtLastRound(c) ==
    pc[c] = "done" =>
        /\ Len(calls[c]) = LastRound
        /\ NumCalls(Len(calls[c])) = 0
        /\ tool_calls[accumulator(c)] = <<>> /\ pending[c] = <<>>
        /\ ~IsStream(c) =>
              LET last == returned[c][Len(returned[c])]
              IN  last.role = "assistant" /\ last.tool_calls = <<>>

\* C19 (as claimed): the loop ends only on a round without tool calls, and
\* when the provider asks for registered tools in rounds 1..k and for none
\* in round k+1, the call eventually returns after exactly k+1 provider
\* calls.
C19_LoopTerminates ==
    /\ [](\A c \in Calls : ReturnedAtLastRound(c) /\ Len(calls[c]) <= LastRound)
    /\ \A c \in Calls : (AllRegistered /\ pc[c] = "idle") ~> (pc[c] = "done")

\* what does hold: the call returns when, besides, every payload
\* deserializes and (for a streaming call) no round carries text after
\* tool-call data; otherwise it raises and never returns
LoopTerminatesUnlessRaised ==
    /\ [](\A c \in Calls : ReturnedAtLastRound(c) /\ Len(calls[c]) <= LastRound)
    /\ \A c \in Calls :
          (/\ AllRegistered /\ AllDeserialize /\ pc[c] = "idle"
           /\ IsStream(c) => NoContentAfterToolCall) ~> (pc[c] = "done")
    /\ \A c \in Calls :
          (/\ pc[c] = "idle"
           /\ \/ ~AllRegistered \/ ~AllDeserialize
              \/ IsStream(c) /\ ~NoContentAfterToolCall) ~> (pc[c] = "error")

\* a message as the streaming path rebuilds it: the assistant message of a
\* tool-call round without its content
WithoutContent(msg) ==
    IF msg.role = "assistant" /\ msg.tool_calls # <<>>
    THEN [msg EXCEPT !.content = None]
    ELSE msg

\* the provider calls of `sent`, tool-call rounds without content
Silenced(sent) ==
    [r \in 1..Len(sent) |->
        [i \in 1..Len(sent[r]) |-> WithoutContent(sent[r][i])]]

\* the first round the non-streaming call reached that carries text after
\* tool-call data, or 0
FirstProtocolError ==
    LET bad == { r \in 1..Len(calls["sync"]) : ContentAfterToolCall(script[r]) > 0 }
    IN  IF bad = {} THEN 0 ELSE CHOOSE r \in bad : \A h \in bad : r <= h

BothFinished == Finished("sync") /\ Finished("stream")

\* C20 (as claimed): for the same agent, context, prompt and provider
\* script, a drained streaming call has issued the same provider calls with
\* the same message lists and executed the same tool calls with the same
\* arguments in the same order as the non-streaming call.
C20_SameRounds ==
    BothFinished =>
        /\ calls["stream"] = calls["sync"]
        /\ executed["stream"] = executed["sync"]

\* C20 (amended): the same, except that the assistant message of a
\* tool-call round is sent back to the provider without its content by the
\* streaming call, and that a streamed round with text after tool-call data
\* ends the streaming call there (AssertionError) while the non-streaming
\* call goes on.
C20_SameRoundsWithoutContent ==
    BothFinished =>
        IF FirstProtocolError = 0
        THEN /\ calls["stream"] = Silenced(calls["sync"])
             /\ executed["stream"] = executed["sync"]
             /\ pc["stream"] = pc["sync"] /\ error["stream"] = error["sync"]
        ELSE /\ calls["stream"] =
                    Silenced(SubSeq(calls["sync"], 1, FirstProtocolError))
             /\ IsPrefix(executed["stream"], executed["sync"])
             /\ error["stream"] = "AssertionError"

\* C20 witness: both calls returned after two tool-call rounds, the first
\* with text before its tool calls: the second provider call of the
\* streaming call differs from the non-streaming one by that text only
C20_Witness ==
    /\ pc["sync"] = "done" /\ pc["stream"] = "done"
    /\ Len(calls["stream"]) = 3 /\ Len(executed["stream"]) >= 2
    /\ round_content(script[1]) = Preamble
    /\ calls["stream"][2] # calls["sync"][2]
    /\ calls["stream"][2] = Silenced(calls["sync"])[2]

\* the content of the fragments of turn cs whose content is present
RECURSIVE PresentContent(_)
PresentContent(cs) ==
    IF cs = <<>>
    THEN <<>>
    ELSE (IF Head(cs).content # None THEN <<Head(cs).content>> ELSE <<>>)
         \o PresentContent(Tail(cs))

\* the same, of the fragments that carry no tool-call delta
RECURSIVE ContentOnly(_)
ContentOnly(cs) ==
    IF cs = <<>>
    THEN <<>>
    ELSE (IF Head(cs).content # None /\ Head(cs).tool_calls = <<>>
          THEN <<Head(cs).content>> ELSE <<>>)
         \o ContentOnly(Tail(cs))

\* the text of rounds i..LastRound, fragment by fragment
RECURSIVE ScriptText(_)
ScriptText(i) ==
    IF i > LastRound THEN <<>> ELSE PresentContent(script[i]) \o ScriptText(i + 1)

RECURSIVE ScriptContentOnly(_)
ScriptContentOnly(i) ==
    IF i > LastRound THEN <<>> ELSE ContentOnly(script[i]) \o ScriptContentOnly(i + 1)

StreamedComplete == input.api = "complete" /\ pc["stream"] = "done"

\* C21 (as claimed): the text stream of complete(prompt, stream=True) that
\* ended without error has yielded the content of every provider fragment
\* whose content is present, in arrival order across all rounds, also of a
\* fragment that carries a tool-call delta as well.
C21_NoTextLost ==
    StreamedComplete => response["stream"] = ScriptText(1)

\* what the stream does yield: the content of the fragments that carry
\* content and no tool-call delta
StreamYieldsContentOnly ==
    StreamedComplete => response["stream"] = ScriptContentOnly(1)

\* the positions of the configured tool list that hold a function of `name`
Named(name) == { i \in 1..Len(builder.tools) : builder.tools[i].name = name }

\* the last of them
LastNamed(name) == CHOOSE i \in Named(name) : \A j \in Named(name) : j <= i

\* what calling the function body fn with the payload of tc gives as content
BodyContent(fn, tc) ==
    LET out == tool_function(fn, json_loads(tc.arguments))
    IN  IF out.raised THEN ErrorPrefix \o out.text ELSE out.text

\* C22: an agent whose tool list holds several functions of one name is
\* built, with the whole list, and a tool call of that name gets one tool
\* message, whose content is the result of the last function of that name
\* in the list.
C22_LastDuplicateWins ==
    /\ built = "Agent" /\ agent # NoAgent /\ agent.tools = builder.tools
    /\ \A c \in Calls :
          /\ error[c] # None =>
                /\ error[c] = "KeyError"
                /\ \E j \in 1..Len(pending[c]) : Named(pending[c][j].name) = {}
          /\ Len(tool_messages[c]) <= Len(pending[c])
          /\ Len(executed[c]) <= Len(events[c]) - Len(calls[c])
          /\ \A j \in 1..Len(tool_messages[c]) :
                LET tc == pending[c][j]
                IN  /\ tool_messages[c][j].tool_call_id = tc.id
                    /\ tool_messages[c][j].content =
                          BodyContent(builder.tools[LastNamed(tc.name)].fn, tc)

\* C22 witness: get_user_name is registered first and a function of the same
\* name that raises after it; the call of get_user_name got the error text
\* of the second and the call returned
C22_Witness ==
    /\ builder.tools = <<get_user_name, Tool("get_user_name", "fail_tool")>>
    /\ pc["sync"] = "done" /\ pc["stream"] = "done"
    /\ Len(returned["sync"]) >= 3
    /\ \E p \in 1..Len(returned["sync"]) :
          /\ returned["sync"][p].role = "tool"
          /\ returned["sync"][p].content = ErrorPrefix \o "no such user"
    /\ Len(executed["stream"]) = 1
    /\ BodyContent("get_user_name", executed["stream"][1]) = "Alice"

\* the user message the prompt of the call renders to
UserMessage == Message("dict", "user", input.prompt, <<>>, None)

\* provider call r of call c holds the message list of call r - 1 followed
\* by that round's assistant message and one tool message per tool call
ExtendsPrevious(c, r) ==
    LET before == calls[c][r - 1]
        now == calls[c][r]
    IN  /\ IsPrefix(before, now)
        /\ Len(now) = Len(before) + 1 + NumCalls(r - 1)
        /\ now[Len(before) + 1].role = "assistant"
        /\ \A j \in 1..NumCalls(r - 1) : now[Len(before) + 1 + j].role = "tool"

\* C23 (as claimed): in a call with a non-empty prompt the message list of
\* every provider round holds the rendered user message, and every round
\* after a tool-call round gets the previous round's whole message list
\* extended by that round's assistant message and tool messages.
C23_UserMessageInEveryRound ==
    \A c \in Calls :
        Truthy(input.prompt) =>
            \A r \in 1..Len(calls[c]) :
                /\ \E i \in 1..Len(calls[c][r]) : calls[c][r][i] = UserMessage
                /\ r > 1 => ExtendsPrevious(c, r)

\* what the rounds after the first do get: the second the first list
\* without the user message, extended by the round's assistant and tool
\* messages, and every later one the extension of the list before it
LaterRoundsLackUserMessage ==
    \A c \in Calls :
        Truthy(input.prompt) =>
            /\ Len(calls[c]) >= 1 =>
                  calls[c][1] = context_as_dicts(InputContext) \o <<UserMessage>>
            /\ \A r \in 2..Len(calls[c]) :
                  /\ \A i \in 1..Len(calls[c][r]) : calls[c][r][i] # UserMessage
                  /\ IF r = 2
                     THEN Len(calls[c][r]) = Len(calls[c][1]) + NumCalls(1)
                     ELSE ExtendsPrevious(c, r)
                  /\ SubSeq(calls[c][r], 1, Len(InputContext)) =
                        context_as_dicts(InputContext)

\* the chunks of turn cs that _stream_messages yields
RECURSIVE Yielded(_)
Yielded(cs) ==
    IF cs = <<>>
    THEN <<>>
    ELSE (IF Head(cs).tool_calls = <<>> THEN <<Head(cs)>> ELSE <<>>)
         \o Yielded(Tail(cs))

\* the same, of the first n rounds of the script
RECURSIVE YieldedRounds(_)
YieldedRounds(n) ==
    IF n = 0 THEN <<>> ELSE YieldedRounds(n - 1) \o Yielded(script[n])

\* the chunks of the current round the stream has taken
TakenChunks(c) ==
    SubSeq(provider_round(Len(calls[c])), 1, Taken(c))

\* a tool call of the current round of call c has been executed
ExecutedThisRound(c) ==
    \E k \in 1..Len(events[c]) :
        events[c][k].kind = "execute" /\ events[c][k].round = Len(calls[c])

\* in every state of the streaming call: what the caller has been handed
\* is every yielded chunk of the rounds before the current one and of the
\* chunks taken of the current one; tools are executed with no chunk of the
\* round left; an abandoned stream has executed no tool of its round
PullDriven(c) ==
    /\ Len(calls[c]) >= 1 =>
          yielded[c] = YieldedRounds(Len(calls[c]) - 1) \o Yielded(TakenChunks(c))
    /\ (pc[c] = "tools" \/ ExecutedThisRound(c)) => chunks[c] = <<>>
    /\ pc[c] = "done" => chunks[c] = <<>>
    /\ pc[c] = "abandoned" =>
          /\ ~ExecutedThisRound(c)
          /\ pending[c] = <<>> /\ tool_messages[c] = <<>>

\* an abandoned stream stays as it is
StaysAbandoned(c) ==
    pc[c] = "abandoned" =>
        /\ pc'[c] = "abandoned"
        /\ calls'[c] = calls[c] /\ events'[c] = events[c]
        /\ executed'[c] = executed[c] /\ yielded'[c] = yielded[c]
        /\ context'[c] = context[c]

\* C24: in a streaming call the tool calls of a round are executed, and the
\* next provider call is made, only when the caller has been handed every
\* fragment of the current round that the stream yields and no fragment of
\* the round is left; once the caller abandons the stream, no tool of the
\* round is executed and no provider call is made any more.
C24_PullDriven ==
    /\ [](PullDriven("stream"))
    /\ [][StaysAbandoned("stream")]_vars

\* C24 witness: the caller took the text that precedes the tool calls of
\* the first round and abandoned the stream: the tool-call fragments are
\* left, nothing was executed, one provider call was made
C24_Witness ==
    /\ pc["stream"] = "abandoned"
    /\ Len(calls["stream"]) = 1 /\ NumCalls(1) = 1
    /\ Len(yielded["stream"]) = 1 /\ yielded["stream"][1].content = Preamble
    /\ Len(chunks["stream"]) = 2
    /\ executed["stream"] = <<>> /\ Len(executed["sync"]) = 1

====
